---- MODULE Spec2Model ----
(***************************************************************************)
(* A model of the DrawKeyboard engine: key geometry (getNoteRect,          *)
(* coordsToNote), the MIDI message classification (processMidiMessage),    *)
(* the pointer gesture handling (handleSyntheticTouchLike,                 *)
(* updateTouchPitchBendAndMod) and the programmatic API (press, release,   *)
(* resetModulationAndPitchBend, sendMidiMessage).                          *)
(*                                                                         *)
(* Lengths are integers in units of 1/Scale pixel, so that the fractions   *)
(* the code uses (0.75, 0.65, 0.35, 1/2 of a key dimension, and the centre *)
(* of a rectangle) are exact.  Pointer positions are whole pixels.         *)
(***************************************************************************)
EXTENDS Integers, Sequences, FiniteSets, TLC

VARIABLES
    whiteKeyWidth,    \* this.whiteKeyWidth, in 1/Scale px
    whiteKeyHeight,   \* this.whiteKeyHeight, in 1/Scale px
    blackKeyWidth,    \* this.blackKeyWidth, in 1/Scale px
    blackKeyHeight,   \* this.blackKeyHeight, in 1/Scale px
    startingNote,     \* this.startingNote
    noteVelocity,     \* this.noteVelocity
    gestures,         \* this.gestures: [pitchBend, modulation]
    activeTouches,    \* this.activeTouches: pointerId -> TouchState
    qwertyLayout,     \* this.qwertyLayout
    qwertyBase,       \* this.qwertyBase
    qwertyCustomMap,  \* this.qwertyCustomMap: code -> offset, or Null
    sink,             \* the messages handed to callbacks.onMidi by the last operation, in order
    draws,            \* the key draws enqueued (enqueueKeyDraw) by the last operation, in order
    lastOp,           \* the last operation and its arguments
    input             \* the host call still to be made (specifications of single calls)

geomVars == <<whiteKeyWidth, whiteKeyHeight, blackKeyWidth, blackKeyHeight, startingNote>>
keyVars == <<qwertyLayout, qwertyBase, qwertyCustomMap>>
outVars == <<sink, draws, lastOp, input>>
vars == <<whiteKeyWidth, whiteKeyHeight, blackKeyWidth, blackKeyHeight, startingNote,
          noteVelocity, gestures, activeTouches, qwertyLayout, qwertyBase, qwertyCustomMap,
          sink, draws, lastOp, input>>

-----------------------------------------------------------------------------
(* Units and bounds *)

\* 1 px = Scale units; 40 is the least scale that keeps 0.65*H/2 and 0.35*W whole.
Scale == 4 * 10

\* Pointer ids are 1..MaxPointers.
MaxPointers == 2
PointerIds == 1..MaxPointers

\* Pointer positions (clientX, clientY) in px: a key in range, 15 px to its left,
\* 10 px to its right and 10 px up (the dead-zone boundary), and a far point whose
\* key is beyond note 127.
Points == { <<100, 50>>, <<85, 50>>, <<110, 40>>, <<700, 1200>> }
\* The positions at which a pointer goes down.
StartPoints == { <<100, 50>>, <<700, 1200>> }

\* Key sizes of the geometry specification, in px: 6..MaxKeyWidth and the default.
MaxKeyWidth == 8
MaxKeyHeight == 21
KeyWidths == (6..MaxKeyWidth) \cup {15}
KeyHeights == (20..MaxKeyHeight) \cup {80}

\* Note arguments of getNoteRect run from -NoteSlack to 127 + NoteSlack.
NoteSlack == 2
NoteArgs == (0 - NoteSlack)..(127 + NoteSlack)

-----------------------------------------------------------------------------
(* utils: mod, clamp; JavaScript number operations *)

Min(a, b) == IF a < b THEN a ELSE b
Max(a, b) == IF a > b THEN a ELSE b
Abs(a) == IF a < 0 THEN 0 - a ELSE a

\* JavaScript n % m (the sign of the result is the sign of n), m > 0
JsRem(n, m) == IF n >= 0 THEN n % m ELSE 0 - ((0 - n) % m)

\* Variant of mod without the wrap of negative remainders (the plain % of JavaScript)
modNoWrap(n, m) == JsRem(n, m)

mod(n, m) == JsRem(JsRem(n, m) + m, m)

clamp(value, min, max) == Max(min, Min(max, value))

\* ToInt32 of the rational num/den (den > 0): truncation toward zero
Trunc(num, den) == IF num >= 0 THEN num \div den ELSE 0 - ((0 - num) \div den)

\* a & b and a | b for a, b >= 0
RECURSIVE BitAnd(_, _)
BitAnd(a, b) ==
    IF a = 0 \/ b = 0 THEN 0
    ELSE (IF a % 2 = 1 /\ b % 2 = 1 THEN 1 ELSE 0) + 2 * BitAnd(a \div 2, b \div 2)

RECURSIVE BitOr(_, _)
BitOr(a, b) ==
    IF a = 0 THEN b
    ELSE IF b = 0 THEN a
    ELSE (IF a % 2 = 1 \/ b % 2 = 1 THEN 1 ELSE 0) + 2 * BitOr(a \div 2, b \div 2)

\* v & 0x7f for an int32 v of either sign (two's complement low bits)
And7F(v) == BitAnd(v % 256, 127)
\* v >> 7 (arithmetic shift) and b << 7
Shr7(v) == v \div 128
Shl7(b) == b * 128

-----------------------------------------------------------------------------
(* types: PIANO_KEYS *)

PIANO_KEYS_black == <<1, 3, 6, 8, 10>>
PIANO_KEYS_white == <<0, 2, 4, 5, 7, 9, 11>>

Includes(seq, v) == \E i \in 1..Len(seq) : seq[i] = v
\* Array.prototype.indexOf, 0-based, -1 when absent
IndexOf(seq, v) ==
    IF Includes(seq, v) THEN (CHOOSE i \in 1..Len(seq) : seq[i] = v) - 1 ELSE 0 - 1

-----------------------------------------------------------------------------
(* Key geometry *)

canvasMarginX == 2
canvasMarginY == 2

Null == [null |-> TRUE]

DOMRect(x, y, w, h) == [x |-> x, y |-> y, width |-> w, height |-> h]

\* chromaticNote and octaveNumber of getNoteRect, for relativeNote = noteNumber - startingNote
ChromaticNote(relativeNote) == mod(relativeNote + 1200, 12)

\* Variant of OctaveNumber that truncates toward zero instead of flooring
OctaveNumberTruncated(relativeNote) == Trunc(relativeNote, 12)

OctaveNumber(relativeNote) == relativeNote \div 12

\* Variant of getNoteRect whose white-key position leaves out the octave (7 * octaveNumber)
GetNoteRectNoOctave(noteNumber) ==
    LET relativeNote == noteNumber - startingNote
        chromaticNote == mod(relativeNote + 1200, 12)
        isBlackKey == Includes(PIANO_KEYS_black, chromaticNote)
        octaveNumber == relativeNote \div 12
    IN  IF isBlackKey
        THEN LET blackKeyXIndex ==
                     7 * octaveNumber
                     + (IF chromaticNote < 4 THEN (chromaticNote + 1) \div 2
                                             ELSE chromaticNote \div 2 + 1)
                     - 1
             IN  DOMRect(canvasMarginX * Scale + blackKeyXIndex * whiteKeyWidth
                             + (whiteKeyWidth * 75) \div 100,
                         canvasMarginY * Scale, blackKeyWidth, blackKeyHeight)
        ELSE LET whiteKeyIndex == IndexOf(PIANO_KEYS_white, chromaticNote)
             IN  DOMRect(canvasMarginX * Scale + whiteKeyIndex * whiteKeyWidth,
                         canvasMarginY * Scale, whiteKeyWidth, whiteKeyHeight)

\* Variant of getNoteRect that takes the chromatic class of the note itself, not of
\* the note relative to the base note
GetNoteRectAbsoluteClass(noteNumber) ==
    LET relativeNote == noteNumber - startingNote
        chromaticNote == mod(noteNumber + 1200, 12)
        isBlackKey == Includes(PIANO_KEYS_black, chromaticNote)
        octaveNumber == relativeNote \div 12
    IN  IF isBlackKey
        THEN LET blackKeyXIndex ==
                     7 * octaveNumber
                     + (IF chromaticNote < 4 THEN (chromaticNote + 1) \div 2
                                             ELSE chromaticNote \div 2 + 1)
                     - 1
             IN  DOMRect(canvasMarginX * Scale + blackKeyXIndex * whiteKeyWidth
                             + (whiteKeyWidth * 75) \div 100,
                         canvasMarginY * Scale, blackKeyWidth, blackKeyHeight)
        ELSE LET whiteKeyIndex == IndexOf(PIANO_KEYS_white, chromaticNote)
                 whiteKeyPosition == whiteKeyIndex + 7 * octaveNumber
             IN  DOMRect(canvasMarginX * Scale + whiteKeyPosition * whiteKeyWidth,
                         canvasMarginY * Scale, whiteKeyWidth, whiteKeyHeight)

\* getNoteRect(noteNumber), lengths in 1/Scale px
GetNoteRect(noteNumber) ==
    LET relativeNote == noteNumber - startingNote
        chromaticNote == ChromaticNote(relativeNote)
        isBlackKey == Includes(PIANO_KEYS_black, chromaticNote)
        octaveNumber == OctaveNumber(relativeNote)
    IN  IF isBlackKey
        THEN LET blackKeyXIndex ==
                     7 * octaveNumber
                     + (IF chromaticNote < 4 THEN (chromaticNote + 1) \div 2
                                             ELSE chromaticNote \div 2 + 1)
                     - 1
             IN  DOMRect(canvasMarginX * Scale + blackKeyXIndex * whiteKeyWidth
                             + (whiteKeyWidth * 75) \div 100,
                         canvasMarginY * Scale, blackKeyWidth, blackKeyHeight)
        ELSE LET whiteKeyIndex == IndexOf(PIANO_KEYS_white, chromaticNote)
                 whiteKeyPosition == whiteKeyIndex + 7 * octaveNumber
             IN  DOMRect(canvasMarginX * Scale + whiteKeyPosition * whiteKeyWidth,
                         canvasMarginY * Scale, whiteKeyWidth, whiteKeyHeight)

\* Variant of the forEach of coordsToNote that compares with < instead of <=
RECURSIVE ShiftByBlacksStrict(_, _)
ShiftByBlacksStrict(whiteKeyInOctave, i) ==
    IF i > Len(PIANO_KEYS_black) THEN whiteKeyInOctave
    ELSE ShiftByBlacksStrict(IF PIANO_KEYS_black[i] < whiteKeyInOctave
                             THEN whiteKeyInOctave + 1 ELSE whiteKeyInOctave, i + 1)

\* The forEach of coordsToNote: one increment for every black class <= the running index
RECURSIVE ShiftByBlacks(_, _)
ShiftByBlacks(whiteKeyInOctave, i) ==
    IF i > Len(PIANO_KEYS_black) THEN whiteKeyInOctave
    ELSE ShiftByBlacks(IF PIANO_KEYS_black[i] <= whiteKeyInOctave
                       THEN whiteKeyInOctave + 1 ELSE whiteKeyInOctave, i + 1)

\* Variant of coordsToNote whose right edge zone selects the next semitone without
\* testing that its class is black
CoordsToNoteNoClassTest(canvasX, canvasY) ==
    LET adjustedX == canvasX - canvasMarginX * Scale
        couldBeBlackKey == canvasY < blackKeyHeight + 2 * Scale
        whiteKeyIndex == adjustedX \div whiteKeyWidth
        xWithinKey == adjustedX - whiteKeyIndex * whiteKeyWidth
        leftBlackKeyZone == couldBeBlackKey /\ xWithinKey * 100 < whiteKeyWidth * 35
        rightBlackKeyZone == couldBeBlackKey /\ xWithinKey * 100 > whiteKeyWidth * (100 - 35)
        octaveNumber == whiteKeyIndex \div 7
        whiteKeyInOctave == ShiftByBlacks(whiteKeyIndex - octaveNumber * 7, 1)
        chromatic0 == octaveNumber * 12 + whiteKeyInOctave
        chromatic1 == IF rightBlackKeyZone THEN chromatic0 + 1 ELSE chromatic0
        chromatic2 == IF leftBlackKeyZone
                         /\ IndexOf(PIANO_KEYS_black, mod(chromatic1 - 1, 12)) # 0 - 1
                      THEN chromatic1 - 1 ELSE chromatic1
    IN  chromatic2 + startingNote

\* Variant of coordsToNote whose black-key band ends at blackKeyHeight (without the + 2)
CoordsToNoteNarrowBand(canvasX, canvasY) ==
    LET adjustedX == canvasX - canvasMarginX * Scale
        couldBeBlackKey == canvasY < blackKeyHeight
        whiteKeyIndex == adjustedX \div whiteKeyWidth
        xWithinKey == adjustedX - whiteKeyIndex * whiteKeyWidth
        leftBlackKeyZone == couldBeBlackKey /\ xWithinKey * 100 < whiteKeyWidth * 35
        rightBlackKeyZone == couldBeBlackKey /\ xWithinKey * 100 > whiteKeyWidth * (100 - 35)
        octaveNumber == whiteKeyIndex \div 7
        whiteKeyInOctave == ShiftByBlacks(whiteKeyIndex - octaveNumber * 7, 1)
        chromatic0 == octaveNumber * 12 + whiteKeyInOctave
        chromatic1 == IF rightBlackKeyZone
                         /\ IndexOf(PIANO_KEYS_black, mod(chromatic0 + 1, 12)) # 0 - 1
                      THEN chromatic0 + 1 ELSE chromatic0
        chromatic2 == IF leftBlackKeyZone
                         /\ IndexOf(PIANO_KEYS_black, mod(chromatic1 - 1, 12)) # 0 - 1
                      THEN chromatic1 - 1 ELSE chromatic1
    IN  chromatic2 + startingNote

\* coordsToNote(canvasX, canvasY), coordinates in 1/Scale px
CoordsToNote(canvasX, canvasY) ==
    LET adjustedX == canvasX - canvasMarginX * Scale
        couldBeBlackKey == canvasY < blackKeyHeight + 2 * Scale
        whiteKeyIndex == adjustedX \div whiteKeyWidth
        xWithinKey == adjustedX - whiteKeyIndex * whiteKeyWidth
        leftBlackKeyZone == couldBeBlackKey /\ xWithinKey * 100 < whiteKeyWidth * 35
        rightBlackKeyZone == couldBeBlackKey /\ xWithinKey * 100 > whiteKeyWidth * (100 - 35)
        octaveNumber == whiteKeyIndex \div 7
        whiteKeyInOctave == ShiftByBlacks(whiteKeyIndex - octaveNumber * 7, 1)
        chromatic0 == octaveNumber * 12 + whiteKeyInOctave
        chromatic1 == IF rightBlackKeyZone
                         /\ IndexOf(PIANO_KEYS_black, mod(chromatic0 + 1, 12)) # 0 - 1
                      THEN chromatic0 + 1 ELSE chromatic0
        chromatic2 == IF leftBlackKeyZone
                         /\ IndexOf(PIANO_KEYS_black, mod(chromatic1 - 1, 12)) # 0 - 1
                      THEN chromatic1 - 1 ELSE chromatic1
    IN  chromatic2 + startingNote

-----------------------------------------------------------------------------
(* MIDI messages: a message is the array <<status, data1, data2>>, or           *)
(* <<status, data1>> when the optional third byte is absent.                    *)

Undefined == "undefined"

NoteOnMsg(note, velocity) == <<144, note, velocity>>       \* [0x90, note, velocity]
NoteOffMsg(note) == <<128, note, 0>>                       \* [0x80, note, 0]
\* [0xe0, v & 0x7f, (v >> 7) & 0x7f] for an int32 v
PitchBendMsg(v) == <<224, And7F(v), And7F(Shr7(v))>>

\* Variant of ControlChangeMsg with the two data bytes in the opposite order
ControlChangeMsgSwapped(controller, value) == <<176, value, controller>>

ControlChangeMsg(controller, value) == <<176, controller, value>>   \* [0xb0, cc, value]

\* Variant of PitchBendValue that shifts the second byte by 8 bits
PitchBendValueShift8(b1, b2) == BitOr(b1, b2 * 256)

\* message[1] | (message[2] << 7) of processMidiMessage
PitchBendValue(b1, b2) == BitOr(b1, Shl7(b2))

\* Variant of processMidiMessage whose NoteOn test is velocity >= 0
ProcessMidiMessageZeroOn(message) ==
    LET statusNibble == BitAnd(message[1], 240)
        has2 == Len(message) >= 3
    IN  IF statusNibble = 144 /\ has2 /\ message[3] >= 0
        THEN << [kind |-> "noteOn", note |-> message[2], velocity |-> message[3]] >>
        ELSE IF statusNibble = 128
        THEN << [kind |-> "noteOff", note |-> message[2]] >>
        ELSE IF statusNibble = 224
        THEN << [kind |-> "pitchBend",
                 value |-> PitchBendValue(message[2], IF has2 THEN message[3] ELSE 0)] >>
        ELSE IF BitAnd(message[1], 240) = 176
        THEN << [kind |-> "controlChange", controller |-> message[2],
                 value |-> IF has2 THEN message[3] ELSE Undefined] >>
        ELSE << >>

\* Variant of processMidiMessage that compares the whole status byte, not its high nibble
ProcessMidiMessageWholeByte(message) ==
    LET statusNibble == message[1]
        has2 == Len(message) >= 3
    IN  IF statusNibble = 144 /\ has2 /\ message[3] > 0
        THEN << [kind |-> "noteOn", note |-> message[2], velocity |-> message[3]] >>
        ELSE IF statusNibble = 128 \/ (statusNibble = 144 /\ has2 /\ message[3] = 0)
        THEN << [kind |-> "noteOff", note |-> message[2]] >>
        ELSE IF statusNibble = 224
        THEN << [kind |-> "pitchBend",
                 value |-> PitchBendValue(message[2], IF has2 THEN message[3] ELSE 0)] >>
        ELSE IF message[1] = 176
        THEN << [kind |-> "controlChange", controller |-> message[2],
                 value |-> IF has2 THEN message[3] ELSE Undefined] >>
        ELSE << >>

\* processMidiMessage(message): the typed callbacks/events it fires, in order
\* (each callback and its CustomEvent carry the same fields and are one entry)
ProcessMidiMessage(message) ==
    LET statusNibble == BitAnd(message[1], 240)
        has2 == Len(message) >= 3
    IN  IF statusNibble = 144 /\ has2 /\ message[3] > 0
        THEN << [kind |-> "noteOn", note |-> message[2], velocity |-> message[3]] >>
        ELSE IF statusNibble = 128 \/ (statusNibble = 144 /\ has2 /\ message[3] = 0)
        THEN << [kind |-> "noteOff", note |-> message[2]] >>
        ELSE IF statusNibble = 224
        THEN << [kind |-> "pitchBend",
                 value |-> PitchBendValue(message[2], IF has2 THEN message[3] ELSE 0)] >>
        ELSE IF BitAnd(message[1], 240) = 176
        THEN << [kind |-> "controlChange", controller |-> message[2],
                 value |-> IF has2 THEN message[3] ELSE Undefined] >>
        ELSE << >>

\* Every event processMidiMessage dispatches for a message, in order: the typed event
\* if any, then the generic 'midi' event carrying the message
DispatchedEvents(message) ==
    ProcessMidiMessage(message) \o << [kind |-> "midi", detail |-> message] >>

\* The typed events of a sequence of sendMidiMessage calls
RECURSIVE ProcessAll(_)
ProcessAll(msgs) ==
    IF msgs = << >> THEN << >> ELSE ProcessMidiMessage(Head(msgs)) \o ProcessAll(Tail(msgs))

\* The three sendMidiMessage calls of resetModulationAndPitchBend
ResetMessages ==
    LET centerPitchBend == 8192
    IN  << PitchBendMsg(centerPitchBend), ControlChangeMsg(1, 0), ControlChangeMsg(11, 127) >>

-----------------------------------------------------------------------------
(* press / release: the messages sent and the draws enqueued *)

InNoteRange(noteNumber) == noteNumber >= 0 /\ noteNumber <= 127

PressEffects(noteNumber, velocity, sendMidi) ==
    IF ~InNoteRange(noteNumber) THEN [msgs |-> << >>, draws |-> << >>]
    ELSE [draws |-> << [rel |-> noteNumber - startingNote, on |-> TRUE] >>,
          msgs |-> IF sendMidi THEN << NoteOnMsg(noteNumber, velocity) >> ELSE << >>]

\* coloredNotes is empty (no persistent colour is set), so release enqueues one draw
ReleaseEffects(noteNumber, sendMidi) ==
    IF ~InNoteRange(noteNumber) THEN [msgs |-> << >>, draws |-> << >>]
    ELSE [draws |-> << [rel |-> noteNumber - startingNote, on |-> FALSE] >>,
          msgs |-> IF sendMidi THEN << NoteOffMsg(noteNumber) >> ELSE << >>]

-----------------------------------------------------------------------------
(* Gesture aggregation *)

\* Variant of SumXMovement that counts one gesture only
SumXMovementOfOne(touches, ids) ==
    IF ids = {} THEN 0
    ELSE LET i == CHOOSE j \in ids : TRUE
         IN  touches[i].currPos[1] - touches[i].startPos[1]

RECURSIVE SumXMovement(_, _)
SumXMovement(touches, ids) ==
    IF ids = {} THEN 0
    ELSE LET i == CHOOSE j \in ids : TRUE
         IN  (touches[i].currPos[1] - touches[i].startPos[1])
             + SumXMovement(touches, ids \ {i})

\* maxYMovement after the loop: starts at -1000, Math.max with every yMovement
RECURSIVE MaxYLoop(_, _, _)
MaxYLoop(touches, ids, maxYMovement) ==
    IF ids = {} THEN maxYMovement
    ELSE LET i == CHOOSE j \in ids : TRUE
         IN  MaxYLoop(touches, ids \ {i},
                      Max(touches[i].currPos[2] - touches[i].startPos[2], maxYMovement))

\* Variant of MaxYMovement whose loop starts at 0 instead of -1000
MaxYMovementFromZero(touches) ==
    IF DOMAIN touches = {} THEN 0 ELSE MaxYLoop(touches, DOMAIN touches, 0)

MaxYMovement(touches) ==
    IF DOMAIN touches = {} THEN 0 ELSE MaxYLoop(touches, DOMAIN touches, 0 - 1000)

\* Variant of BeyondDeadZone with an inclusive dead-zone boundary (>= 10)
BeyondDeadZoneInclusive(touches) ==
    LET touchCount == Cardinality(DOMAIN touches)
    IN  touchCount > 0 /\ Abs(SumXMovement(touches, DOMAIN touches)) >= 10 * touchCount

\* |averageXMovement| > 10, with averageXMovement = sum / touchCount (0 when no touch)
BeyondDeadZone(touches) ==
    LET touchCount == Cardinality(DOMAIN touches)
    IN  touchCount > 0 /\ Abs(SumXMovement(touches, DOMAIN touches)) > 10 * touchCount

\* ToInt32(pitchBendValue): pitchBendValue = 8192 + dir * bendAmount * 8191 / 127 is the
\* rational (8192*127*c + dir*b*8191) / (127*c), bendAmount = b/c, c = touchCount
PitchBendInt(touches) ==
    LET c == Cardinality(DOMAIN touches)
        sum == SumXMovement(touches, DOMAIN touches)
        dir == IF sum > 0 THEN 1 ELSE 0 - 1
        b == Min(127 * c, Max(0, Abs(sum) - 10 * c))
    IN  Trunc(8192 * 127 * c + dir * b * 8191, 127 * c)

\* The controller number and value of the modulation branch
ModulationChange(touches) ==
    LET maxYMovement == MaxYMovement(touches)
    IN  IF maxYMovement >= 0
        THEN [controller |-> 11, value |-> Min(127, Max(0, 127 - maxYMovement))]
        ELSE [controller |-> 1, value |-> Min(127, Max(0, Abs(maxYMovement)))]

\* Variant of updateTouchPitchBendAndMod that sends the centre value inside the dead zone
UpdateTouchPitchBendAndModRecentre(touches, g) ==
    (IF g.pitchBend
     THEN << PitchBendMsg(IF BeyondDeadZone(touches) THEN PitchBendInt(touches) ELSE 8192) >>
     ELSE << >>)
    \o
    (IF g.modulation
     THEN LET change == ModulationChange(touches)
          IN  << ControlChangeMsg(change.controller, change.value) >>
     ELSE << >>)

\* updateTouchPitchBendAndMod(): the messages it sends, in order
UpdateTouchPitchBendAndMod(touches, g) ==
    (IF g.pitchBend /\ BeyondDeadZone(touches)
     THEN << PitchBendMsg(PitchBendInt(touches)) >> ELSE << >>)
    \o
    (IF g.modulation
     THEN LET change == ModulationChange(touches)
          IN  << ControlChangeMsg(change.controller, change.value) >>
     ELSE << >>)

-----------------------------------------------------------------------------
(* Construction *)

\* getBoundingClientRect() of the canvas: the canvas sits at the client origin
canvasLeft == 0
canvasTop == 0

NoTouches == [i \in {} |-> 0]
NoCall == [op |-> "none"]

\* constructor(options) with options keyWidth, keyHeight (px), baseNote, velocity
Constructor(keyWidth, keyHeight, baseNote, velocity) ==
    /\ whiteKeyWidth = keyWidth * Scale
    /\ whiteKeyHeight = keyHeight * Scale
    /\ blackKeyWidth = (keyWidth * Scale) \div 2 - 2 * Scale
    /\ blackKeyHeight = (keyHeight * Scale * 65) \div 100 - 2 * Scale
    /\ startingNote = clamp(baseNote, 0, 127)
    /\ noteVelocity = clamp(velocity, 1, 127)
    /\ gestures = [pitchBend |-> TRUE, modulation |-> TRUE]
    /\ activeTouches = NoTouches
    /\ qwertyLayout = "none"
    /\ qwertyBase = 60
    /\ qwertyCustomMap = Null
    /\ sink = << >>
    /\ draws = << >>
    /\ lastOp = [op |-> "constructor"]

\* The typed callbacks/events fired by the last operation, in order: sendMidiMessage
\* hands each message to onMidi and then to processMidiMessage
fired == ProcessAll(sink)

\* sendMidiMessage for each message of msgs in order, and the draws enqueued;
\* the handler returns, so no host call is pending
Emit(msgs, drawn) ==
    /\ sink' = msgs
    /\ draws' = drawn
    /\ input' = NoCall

-----------------------------------------------------------------------------
(* Pointer events: handleSyntheticTouchLike *)

\* Variant of PointerDown that sends the NoteOn without the range test
PointerDownNoRangeTest(id, p) ==
    LET noteNumber == CoordsToNote((p[1] - canvasLeft) * Scale, (p[2] - canvasTop) * Scale)
    IN  /\ activeTouches' =
               [i \in DOMAIN activeTouches \cup {id} |->
                   IF i = id THEN [startPos |-> p, currPos |-> p, note |-> noteNumber]
                             ELSE activeTouches[i]]
        /\ Emit(ResetMessages \o << NoteOnMsg(noteNumber, noteVelocity) >>,
                PressEffects(noteNumber, noteVelocity, FALSE).draws)
        /\ lastOp' = [op |-> "start", id |-> id,
                      known |-> id \in DOMAIN activeTouches, same |-> FALSE]
        /\ UNCHANGED <<geomVars, keyVars, noteVelocity, gestures>>

\* Variant of PointerDown that resets the controllers only when a gesture is enabled
PointerDownGuardedReset(id, p) ==
    LET noteNumber == CoordsToNote((p[1] - canvasLeft) * Scale, (p[2] - canvasTop) * Scale)
    IN  /\ activeTouches' =
               [i \in DOMAIN activeTouches \cup {id} |->
                   IF i = id THEN [startPos |-> p, currPos |-> p, note |-> noteNumber]
                             ELSE activeTouches[i]]
        /\ Emit((IF gestures.pitchBend \/ gestures.modulation THEN ResetMessages ELSE << >>)
                  \o (IF InNoteRange(noteNumber)
                      THEN << NoteOnMsg(noteNumber, noteVelocity) >> ELSE << >>),
                IF InNoteRange(noteNumber)
                THEN PressEffects(noteNumber, noteVelocity, FALSE).draws ELSE << >>)
        /\ lastOp' = [op |-> "start", id |-> id,
                      known |-> id \in DOMAIN activeTouches, same |-> FALSE]
        /\ UNCHANGED <<geomVars, keyVars, noteVelocity, gestures>>

\* onPointerDown: phase 'start'
PointerDown(id, p) ==
    LET noteNumber == CoordsToNote((p[1] - canvasLeft) * Scale, (p[2] - canvasTop) * Scale)
    IN  /\ activeTouches' =
               [i \in DOMAIN activeTouches \cup {id} |->
                   IF i = id THEN [startPos |-> p, currPos |-> p, note |-> noteNumber]
                             ELSE activeTouches[i]]
        /\ Emit(ResetMessages
                  \o (IF InNoteRange(noteNumber)
                      THEN << NoteOnMsg(noteNumber, noteVelocity) >> ELSE << >>),
                IF InNoteRange(noteNumber)
                THEN PressEffects(noteNumber, noteVelocity, FALSE).draws ELSE << >>)
        /\ lastOp' = [op |-> "start", id |-> id,
                      known |-> id \in DOMAIN activeTouches, same |-> FALSE]
        /\ UNCHANGED <<geomVars, keyVars, noteVelocity, gestures>>

\* Variant of PointerMove that is edge-triggered: it sends only when the position changed
PointerMoveOnChange(id, p) ==
    /\ IF id \in DOMAIN activeTouches /\ activeTouches[id].currPos # p
       THEN /\ activeTouches' = [activeTouches EXCEPT ![id].currPos = p]
            /\ Emit(UpdateTouchPitchBendAndMod(activeTouches', gestures), << >>)
       ELSE /\ activeTouches' = activeTouches
            /\ Emit(<< >>, << >>)
    /\ lastOp' = [op |-> "move", id |-> id,
                  known |-> id \in DOMAIN activeTouches,
                  same |-> id \in DOMAIN activeTouches /\ activeTouches[id].currPos = p]
    /\ UNCHANGED <<geomVars, keyVars, noteVelocity, gestures>>

\* onPointerMove: phase 'move'
PointerMove(id, p) ==
    /\ IF id \in DOMAIN activeTouches
       THEN /\ activeTouches' = [activeTouches EXCEPT ![id].currPos = p]
            /\ Emit(UpdateTouchPitchBendAndMod(activeTouches', gestures), << >>)
       ELSE /\ activeTouches' = activeTouches
            /\ Emit(<< >>, << >>)
    /\ lastOp' = [op |-> "move", id |-> id,
                  known |-> id \in DOMAIN activeTouches,
                  same |-> id \in DOMAIN activeTouches /\ activeTouches[id].currPos = p]
    /\ UNCHANGED <<geomVars, keyVars, noteVelocity, gestures>>

\* Variant of EndPhase whose NoteOff carries the note under the current position
EndPhaseHitTestAgain(id) ==
    /\ IF id \in DOMAIN activeTouches
       THEN LET p == activeTouches[id].currPos
                noteNumber == CoordsToNote((p[1] - canvasLeft) * Scale,
                                           (p[2] - canvasTop) * Scale)
            IN  /\ activeTouches' = [i \in DOMAIN activeTouches \ {id} |-> activeTouches[i]]
                /\ Emit((IF InNoteRange(noteNumber)
                         THEN << NoteOffMsg(noteNumber) >> ELSE << >>)
                          \o UpdateTouchPitchBendAndMod(activeTouches', gestures),
                        IF InNoteRange(noteNumber)
                        THEN ReleaseEffects(noteNumber, FALSE).draws ELSE << >>)
       ELSE /\ activeTouches' = activeTouches
            /\ Emit(<< >>, << >>)
    /\ lastOp' = [op |-> "end", id |-> id,
                  known |-> id \in DOMAIN activeTouches, same |-> FALSE]
    /\ UNCHANGED <<geomVars, keyVars, noteVelocity, gestures>>

\* phase 'end' for pointer id
EndPhase(id) ==
    /\ IF id \in DOMAIN activeTouches
       THEN LET noteNumber == activeTouches[id].note
            IN  /\ activeTouches' = [i \in DOMAIN activeTouches \ {id} |-> activeTouches[i]]
                /\ Emit((IF InNoteRange(noteNumber)
                         THEN << NoteOffMsg(noteNumber) >> ELSE << >>)
                          \o UpdateTouchPitchBendAndMod(activeTouches', gestures),
                        IF InNoteRange(noteNumber)
                        THEN ReleaseEffects(noteNumber, FALSE).draws ELSE << >>)
       ELSE /\ activeTouches' = activeTouches
            /\ Emit(<< >>, << >>)
    /\ lastOp' = [op |-> "end", id |-> id,
                  known |-> id \in DOMAIN activeTouches, same |-> FALSE]
    /\ UNCHANGED <<geomVars, keyVars, noteVelocity, gestures>>

\* onPointerUp, the listener of pointerup and of pointercancel
PointerUp(id) == EndPhase(id)

\* Variant of the pointercancel listener that leaves the gesture in place
PointerCancelIgnored(id) ==
    /\ Emit(<< >>, << >>)
    /\ lastOp' = [op |-> "end", id |-> id,
                  known |-> id \in DOMAIN activeTouches, same |-> FALSE]
    /\ UNCHANGED <<geomVars, keyVars, noteVelocity, gestures, activeTouches>>

PointerCancel(id) == EndPhase(id)

-----------------------------------------------------------------------------
(* Public API *)

SetGestures(g) ==
    /\ gestures' = g
    /\ Emit(<< >>, << >>)
    /\ lastOp' = [op |-> "setGestures"]
    /\ UNCHANGED <<geomVars, keyVars, noteVelocity, activeTouches>>

\* press(noteNumber, velocity, color, sendMidi)
Press(noteNumber, velocity, sendMidi) ==
    /\ Emit(PressEffects(noteNumber, velocity, sendMidi).msgs,
            PressEffects(noteNumber, velocity, sendMidi).draws)
    /\ lastOp' = [op |-> "press", note |-> noteNumber, velocity |-> velocity,
                  sendMidi |-> sendMidi]
    /\ UNCHANGED <<geomVars, keyVars, noteVelocity, gestures, activeTouches>>

\* release(noteNumber, sendMidi)
Release(noteNumber, sendMidi) ==
    /\ Emit(ReleaseEffects(noteNumber, sendMidi).msgs,
            ReleaseEffects(noteNumber, sendMidi).draws)
    /\ lastOp' = [op |-> "release", note |-> noteNumber, sendMidi |-> sendMidi]
    /\ UNCHANGED <<geomVars, keyVars, noteVelocity, gestures, activeTouches>>

ResetModulationAndPitchBend ==
    /\ Emit(ResetMessages, << >>)
    /\ lastOp' = [op |-> "resetModulationAndPitchBend"]
    /\ UNCHANGED <<geomVars, keyVars, noteVelocity, gestures, activeTouches>>

\* sendMidiMessage(message) called by the host
SendMidiMessage(message) ==
    /\ Emit(<< message >>, << >>)
    /\ lastOp' = [op |-> "sendMidiMessage", message |-> message]
    /\ UNCHANGED <<geomVars, keyVars, noteVelocity, gestures, activeTouches>>

\* sendMidiMessage([0xe0, v & 0x7f, (v >> 7) & 0x7f]) for a pitch-bend value v
SendPitchBend(v) ==
    /\ Emit(<< PitchBendMsg(v) >>, << >>)
    /\ lastOp' = [op |-> "sendPitchBend", value |-> v]
    /\ UNCHANGED <<geomVars, keyVars, noteVelocity, gestures, activeTouches>>

\* getNoteRect(noteNumber) called by the host
QueryNoteRect(noteNumber) ==
    /\ Emit(<< >>, << >>)
    /\ lastOp' = [op |-> "getNoteRect", note |-> noteNumber, rect |-> GetNoteRect(noteNumber)]
    /\ UNCHANGED <<geomVars, keyVars, noteVelocity, gestures, activeTouches>>

\* coordsToNote at the point (dx, dy) away from the corner of getNoteRect(noteNumber),
\* offsets in 1/Scale px
HitTest(noteNumber, dx, dy) ==
    LET rect == GetNoteRect(noteNumber)
    IN  /\ Emit(<< >>, << >>)
        /\ lastOp' = [op |-> "coordsToNote", note |-> noteNumber, rect |-> rect,
                      x |-> rect.x + dx, y |-> rect.y + dy,
                      hit |-> CoordsToNote(rect.x + dx, rect.y + dy)]
        /\ UNCHANGED <<geomVars, keyVars, noteVelocity, gestures, activeTouches>>

-----------------------------------------------------------------------------
(* Configuration setters; parseBaseNote on note names *)

\* A note name is the sequence of its characters, e.g. <<"C", "#", "4">>
NoteLetters == { "A", "B", "C", "D", "E", "F", "G", "a", "b", "c", "d", "e", "f", "g" }
DecimalDigits == { "0", "1", "2", "3", "4", "5", "6", "7", "8", "9" }

\* input.trim()
RECURSIVE TrimStart(_)
TrimStart(s) == IF s # << >> /\ Head(s) = " " THEN TrimStart(Tail(s)) ELSE s
RECURSIVE TrimEnd(_)
TrimEnd(s) ==
    IF s # << >> /\ s[Len(s)] = " " THEN TrimEnd(SubSeq(s, 1, Len(s) - 1)) ELSE s
Trim(s) == TrimEnd(TrimStart(s))

\* noteMap[letter.toLowerCase()]
NoteMap(letter) ==
    CASE letter \in {"C", "c"} -> 0
      [] letter \in {"D", "d"} -> 2
      [] letter \in {"E", "e"} -> 4
      [] letter \in {"F", "f"} -> 5
      [] letter \in {"G", "g"} -> 7
      [] letter \in {"A", "a"} -> 9
      [] letter \in {"B", "b"} -> 11

DigitValue(d) ==
    CASE d = "0" -> 0 [] d = "1" -> 1 [] d = "2" -> 2 [] d = "3" -> 3 [] d = "4" -> 4
      [] d = "5" -> 5 [] d = "6" -> 6 [] d = "7" -> 7 [] d = "8" -> 8 [] d = "9" -> 9

\* parseInt(digits, 10) for a sequence of decimal digits
RECURSIVE ParseDigits(_)
ParseDigits(s) ==
    IF s = << >> THEN 0
    ELSE 10 * ParseDigits(SubSeq(s, 1, Len(s) - 1)) + DigitValue(s[Len(s)])

\* s matches -?\d+
IsOctaveText(s) ==
    LET digits == IF s # << >> /\ Head(s) = "-" THEN Tail(s) ELSE s
    IN  digits # << >> /\ \A k \in 1..Len(digits) : digits[k] \in DecimalDigits

ParseOctave(s) == IF Head(s) = "-" THEN 0 - ParseDigits(Tail(s)) ELSE ParseDigits(s)

\* parseBaseNote(input) for a string: /^([A-Ga-g])([#b]?)(-?\d+)$/ on the trimmed
\* input, 12 when it does not match
ParseBaseNoteName(name) ==
    LET t == Trim(name)
        hasLetter == t # << >> /\ Head(t) \in NoteLetters
        rest == Tail(t)
        hasAccidental == rest # << >> /\ Head(rest) \in {"#", "b"}
        accidental == IF hasAccidental THEN Head(rest) ELSE ""
        octaveText == IF hasAccidental THEN Tail(rest) ELSE rest
    IN  IF ~hasLetter \/ ~IsOctaveText(octaveText) THEN 12
        ELSE 12 * (ParseOctave(octaveText) + 1)
             + NoteMap(Head(t))
             + (IF accidental = "#" THEN 1 ELSE 0)
             - (IF accidental = "b" THEN 1 ELSE 0)

\* Variant of setKeyWidth that leaves the black-key width as it was
setKeyWidthWhiteOnly(width) ==
    /\ whiteKeyWidth' = Max(6, width) * Scale
    /\ Emit(<< >>, << >>)
    /\ lastOp' = [op |-> "setKeyWidth", arg |-> width]
    /\ UNCHANGED <<blackKeyWidth, whiteKeyHeight, blackKeyHeight, startingNote, keyVars,
                   noteVelocity, gestures, activeTouches>>

\* setKeyWidth(width) for an integer width in px
setKeyWidth(width) ==
    /\ whiteKeyWidth' = Max(6, width) * Scale
    /\ blackKeyWidth' = whiteKeyWidth' \div 2 - 2 * Scale
    /\ Emit(<< >>, << >>)
    /\ lastOp' = [op |-> "setKeyWidth", arg |-> width]
    /\ UNCHANGED <<whiteKeyHeight, blackKeyHeight, startingNote, keyVars, noteVelocity,
                   gestures, activeTouches>>

\* setKeyHeight(height) for an integer height in px
setKeyHeight(height) ==
    /\ whiteKeyHeight' = Max(20, height) * Scale
    /\ blackKeyHeight' = (whiteKeyHeight' * 65) \div 100 - 2 * Scale
    /\ Emit(<< >>, << >>)
    /\ lastOp' = [op |-> "setKeyHeight", arg |-> height]
    /\ UNCHANGED <<whiteKeyWidth, blackKeyWidth, startingNote, keyVars, noteVelocity,
                   gestures, activeTouches>>

\* setBaseNote(noteNumber) for an integer noteNumber
setBaseNote(noteNumber) ==
    /\ startingNote' = clamp(noteNumber, 0, 127)
    /\ Emit(<< >>, << >>)
    /\ lastOp' = [op |-> "setBaseNote", arg |-> noteNumber]
    /\ UNCHANGED <<whiteKeyWidth, whiteKeyHeight, blackKeyWidth, blackKeyHeight, keyVars,
                   noteVelocity, gestures, activeTouches>>

\* setBaseNoteName(note)
setBaseNoteName(note) ==
    /\ startingNote' = clamp(ParseBaseNoteName(note), 0, 127)
    /\ Emit(<< >>, << >>)
    /\ lastOp' = [op |-> "setBaseNoteName", arg |-> note]
    /\ UNCHANGED <<whiteKeyWidth, whiteKeyHeight, blackKeyWidth, blackKeyHeight, keyVars,
                   noteVelocity, gestures, activeTouches>>

\* setVelocity(velocity) for an integer velocity
setVelocity(velocity) ==
    /\ noteVelocity' = clamp(velocity, 1, 127)
    /\ Emit(<< >>, << >>)
    /\ lastOp' = [op |-> "setVelocity", arg |-> velocity]
    /\ UNCHANGED <<geomVars, keyVars, gestures, activeTouches>>

-----------------------------------------------------------------------------
(* QWERTY input: QWERTY_PRESETS, getQwertyMap *)

\* An object literal: the function from its keys to their values (the last entry of a
\* key is the one kept)
ObjectOf(pairs) ==
    [c \in { pairs[i][1] : i \in 1..Len(pairs) } |->
        pairs[CHOOSE i \in 1..Len(pairs) :
                  pairs[i][1] = c /\ \A j \in (i + 1)..Len(pairs) : pairs[j][1] # c][2]]

SingleRowExtendedLadder ==
    << <<"Backquote", 0>>, <<"KeyA", 1>>, <<"KeyZ", 2>>, <<"KeyS", 3>>, <<"KeyX", 4>>,
       <<"KeyC", 5>>, <<"KeyF", 6>>, <<"KeyV", 7>>, <<"KeyG", 8>>, <<"KeyB", 9>>,
       <<"KeyH", 10>>, <<"KeyN", 11>>, <<"KeyM", 12>>, <<"KeyK", 13>>, <<"Comma", 14>>,
       <<"KeyL", 15>>, <<"Period", 16>>, <<"Slash", 17>>, <<"Quote", 18>> >>

UpperRows ==
    << <<"KeyQ", 17>>, <<"KeyW", 19>>, <<"KeyE", 21>>, <<"KeyR", 23>>, <<"KeyT", 24>>,
       <<"KeyY", 26>>, <<"KeyU", 28>>, <<"KeyI", 29>>, <<"KeyO", 31>>, <<"KeyP", 33>>,
       <<"BracketLeft", 35>>, <<"BracketRight", 36>>,
       <<"Digit2", 18>>, <<"Digit3", 20>>, <<"Digit4", 22>>, <<"Digit6", 25>>,
       <<"Digit7", 27>>, <<"Digit9", 30>>, <<"Digit0", 32>>, <<"Minus", 34>> >>

\* QWERTY_PRESETS: layout -> (KeyboardEvent.code -> semitone offset from C)
QWERTY_PRESETS ==
    [ singleRow |->
          ObjectOf(<< <<"KeyZ", 0>>, <<"KeyS", 1>>, <<"KeyX", 2>>, <<"KeyD", 3>>,
                      <<"KeyC", 4>>, <<"KeyV", 5>>, <<"KeyG", 6>>, <<"KeyB", 7>>,
                      <<"KeyH", 8>>, <<"KeyN", 9>>, <<"KeyJ", 10>>, <<"KeyM", 11>>,
                      <<"Comma", 12>>, <<"KeyL", 13>>, <<"Period", 14>>,
                      <<"Semicolon", 15>>, <<"Slash", 16>> >>),
      singleRowExtended |-> ObjectOf(SingleRowExtendedLadder),
      doubleRow |-> ObjectOf(SingleRowExtendedLadder \o UpperRows),
      doubleRowExtended |-> ObjectOf(SingleRowExtendedLadder \o UpperRows) ]

\* The single-row generator of getQwertyMap
SingleRowSeq ==
    << "KeyZ", "KeyS", "KeyX", "KeyD", "KeyC", "KeyV", "KeyG", "KeyB", "KeyH", "KeyN",
       "KeyJ", "KeyM", "Comma" >>
SingleRowExt == << "Period", "Slash" >>

SingleRowGenerated(layout, base) ==
    LET baseC == 12 * (base \div 12)
        extended == layout = "singleRowExtended"
        row == IF extended THEN SingleRowSeq \o SingleRowExt ELSE SingleRowSeq
        codes == { row[i] : i \in 1..Len(row) } \cup (IF extended THEN {"Backquote"} ELSE {})
    IN  [c \in codes |-> IF c = "Backquote" THEN clamp(baseC + 0, 0, 127)
                         ELSE clamp(base + IndexOf(row, c), 0, 127)]

\* The double-row generator of getQwertyMap
BottomWhites ==
    << "KeyZ", "KeyX", "KeyC", "KeyV", "KeyB", "KeyN", "KeyM", "Comma", "Period", "Slash" >>
TopBlacksBase ==
    << "KeyQ", "Digit2", "KeyW", "Digit3", "KeyE", "KeyR", "Digit5", "KeyT", "Digit6",
       "KeyY", "Digit7", "KeyU" >>
TopBlacksExt == << "Minus", "Equal", "Semicolon" >>

\* while (isBlack(n)) n--
RECURSIVE AlignToWhite(_)
AlignToWhite(n) ==
    IF Includes(PIANO_KEYS_black, mod(n, 12)) THEN AlignToWhite(n - 1) ELSE n

DoubleRowGenerated(layout, base) ==
    LET baseC == 12 * (base \div 12)
        extended == layout = "doubleRowExtended"
        topBlacks == IF extended THEN TopBlacksBase \o TopBlacksExt ELSE TopBlacksBase
        n == AlignToWhite(base)
        wIdx == IndexOf(PIANO_KEYS_white, mod(n, 12))
        oct == n \div 12
        \* whites[i], i = 0..9
        whites(i) == (oct + (wIdx + i) \div 7) * 12 + PIANO_KEYS_white[((wIdx + i) % 7) + 1]
        \* the indices i whose white neighbours are 2 semitones apart, in order
        gaps == SelectSeq([k \in 1..(Len(BottomWhites) - 1) |-> k - 1],
                          LAMBDA i : JsRem(whites(i + 1) - whites(i) + 12, 12) = 2)
        blackCodes == { topBlacks[j] : j \in 1..Min(Len(gaps), Len(topBlacks)) }
        whiteCodes == { BottomWhites[i] : i \in 1..Len(BottomWhites) }
        codes == whiteCodes \cup blackCodes \cup (IF extended THEN {"Backquote"} ELSE {})
    IN  [c \in codes |->
            IF c = "Backquote" THEN clamp(baseC + 0, 0, 127)
            ELSE IF c \in blackCodes THEN whites(gaps[IndexOf(topBlacks, c) + 1]) + 1
            ELSE whites(IndexOf(BottomWhites, c))]

\* The empty table {}
NoBindings == [c \in {} |-> 0]

\* Variant of getQwertyMap that applies a custom map whatever the layout
GetQwertyMapCustomAlways(layout, base, customMap) ==
    LET baseC == 12 * (base \div 12)
    IN  IF customMap # Null
        THEN [code \in DOMAIN customMap |-> clamp(baseC + customMap[code], 0, 127)]
        ELSE IF layout \in DOMAIN QWERTY_PRESETS /\ DOMAIN QWERTY_PRESETS[layout] # {}
        THEN [code \in DOMAIN QWERTY_PRESETS[layout] |->
                 clamp(baseC + QWERTY_PRESETS[layout][code], 0, 127)]
        ELSE IF layout \in {"singleRow", "singleRowExtended"}
        THEN SingleRowGenerated(layout, base)
        ELSE IF layout \in {"doubleRow", "doubleRowExtended"}
        THEN DoubleRowGenerated(layout, base)
        ELSE NoBindings

\* Variant of getQwertyMap that tries the generators before the presets
GetQwertyMapGeneratorsFirst(layout, base, customMap) ==
    LET baseC == 12 * (base \div 12)
    IN  IF customMap # Null /\ layout \in {"singleRowExtended", "doubleRowExtended"}
        THEN [code \in DOMAIN customMap |-> clamp(baseC + customMap[code], 0, 127)]
        ELSE IF layout \in {"singleRow", "singleRowExtended"}
        THEN SingleRowGenerated(layout, base)
        ELSE IF layout \in {"doubleRow", "doubleRowExtended"}
        THEN DoubleRowGenerated(layout, base)
        ELSE IF layout \in DOMAIN QWERTY_PRESETS /\ DOMAIN QWERTY_PRESETS[layout] # {}
        THEN [code \in DOMAIN QWERTY_PRESETS[layout] |->
                 clamp(baseC + QWERTY_PRESETS[layout][code], 0, 127)]
        ELSE NoBindings

\* getQwertyMap() for the fields qwertyLayout, qwertyBase, qwertyCustomMap
GetQwertyMap(layout, base, customMap) ==
    LET baseC == 12 * (base \div 12)
    IN  IF customMap # Null /\ layout \in {"singleRowExtended", "doubleRowExtended"}
        THEN [code \in DOMAIN customMap |-> clamp(baseC + customMap[code], 0, 127)]
        ELSE IF layout \in DOMAIN QWERTY_PRESETS /\ DOMAIN QWERTY_PRESETS[layout] # {}
        THEN [code \in DOMAIN QWERTY_PRESETS[layout] |->
                 clamp(baseC + QWERTY_PRESETS[layout][code], 0, 127)]
        ELSE IF layout \in {"singleRow", "singleRowExtended"}
        THEN SingleRowGenerated(layout, base)
        ELSE IF layout \in {"doubleRow", "doubleRowExtended"}
        THEN DoubleRowGenerated(layout, base)
        ELSE NoBindings

\* Properties every object inherits from Object.prototype: map[code] reads them when
\* map has no own property code
ObjectPrototypeKeys == { "constructor", "toString" }
\* The value read for such a property (a function, not a number)
InheritedValue == [inherited |-> TRUE]
\* Number(value) of that value
NaN == [nan |-> TRUE]

setQwertyLayout(layout) ==
    /\ qwertyLayout' = layout
    /\ Emit(<< >>, << >>)
    /\ lastOp' = [op |-> "setQwertyLayout"]
    /\ UNCHANGED <<geomVars, qwertyBase, qwertyCustomMap, noteVelocity, gestures, activeTouches>>

\* setQwertyBase(note) for a number note
setQwertyBase(note) ==
    /\ qwertyBase' = clamp(note, 0, 127)
    /\ Emit(<< >>, << >>)
    /\ lastOp' = [op |-> "setQwertyBase"]
    /\ UNCHANGED <<geomVars, qwertyLayout, qwertyCustomMap, noteVelocity, gestures, activeTouches>>

setQwertyMap(map) ==
    /\ qwertyCustomMap' = map
    /\ Emit(<< >>, << >>)
    /\ lastOp' = [op |-> "setQwertyMap"]
    /\ UNCHANGED <<geomVars, qwertyLayout, qwertyBase, noteVelocity, gestures, activeTouches>>

\* onKeyDown(e): code = e.code, repeat = e.repeat, editable = the target is an input,
\* textarea, select or contentEditable element
onKeyDown(code, repeat, editable) ==
    LET map == GetQwertyMap(qwertyLayout, qwertyBase, qwertyCustomMap)
    IN  /\ IF editable \/ repeat \/ qwertyLayout = "none"
           THEN Emit(<< >>, << >>)
           ELSE IF code \in DOMAIN map
           THEN Emit(<< NoteOnMsg(map[code], noteVelocity) >>,
                     PressEffects(map[code], noteVelocity, FALSE).draws)
           ELSE IF code \in ObjectPrototypeKeys
           THEN \* press(note): NaN is neither < 0 nor > 127
                Emit(<< NoteOnMsg(InheritedValue, noteVelocity) >>,
                     << [rel |-> NaN, on |-> TRUE] >>)
           ELSE Emit(<< >>, << >>)
        /\ lastOp' = [op |-> "keyDown", code |-> code, repeat |-> repeat,
                      editable |-> editable]
        /\ UNCHANGED <<geomVars, keyVars, noteVelocity, gestures, activeTouches>>

\* Variant of onKeyUp whose table is anchored at the base note of construction, not at
\* the current qwertyBase
onKeyUpStaleBase(code, editable) ==
    LET map == GetQwertyMap(qwertyLayout, 60, qwertyCustomMap)
    IN  /\ IF editable \/ qwertyLayout = "none"
           THEN Emit(<< >>, << >>)
           ELSE IF code \in DOMAIN map
           THEN Emit(<< NoteOffMsg(map[code]) >>, ReleaseEffects(map[code], FALSE).draws)
           ELSE IF code \in ObjectPrototypeKeys
           THEN Emit(<< NoteOffMsg(InheritedValue) >>, << [rel |-> NaN, on |-> FALSE] >>)
           ELSE Emit(<< >>, << >>)
        /\ lastOp' = [op |-> "keyUp", code |-> code, repeat |-> FALSE,
                      editable |-> editable]
        /\ UNCHANGED <<geomVars, keyVars, noteVelocity, gestures, activeTouches>>

\* onKeyUp(e)
onKeyUp(code, editable) ==
    LET map == GetQwertyMap(qwertyLayout, qwertyBase, qwertyCustomMap)
    IN  /\ IF editable \/ qwertyLayout = "none"
           THEN Emit(<< >>, << >>)
           ELSE IF code \in DOMAIN map
           THEN Emit(<< NoteOffMsg(map[code]) >>, ReleaseEffects(map[code], FALSE).draws)
           ELSE IF code \in ObjectPrototypeKeys
           THEN Emit(<< NoteOffMsg(InheritedValue) >>, << [rel |-> NaN, on |-> FALSE] >>)
           ELSE Emit(<< >>, << >>)
        /\ lastOp' = [op |-> "keyUp", code |-> code, repeat |-> FALSE,
                      editable |-> editable]
        /\ UNCHANGED <<geomVars, keyVars, noteVelocity, gestures, activeTouches>>

-----------------------------------------------------------------------------
(* Specifications *)

DefaultKeyWidth == 15
DefaultKeyHeight == 80
DefaultVelocity == 100

GestureArgs == [pitchBend : BOOLEAN, modulation : BOOLEAN]

\* The gesture engine: pointer events on a keyboard built with baseNote 60
Init == Constructor(DefaultKeyWidth, DefaultKeyHeight, 60, DefaultVelocity) /\ input = NoCall

Next ==
    \/ \E id \in PointerIds, p \in StartPoints : PointerDown(id, p)
    \/ \E id \in PointerIds, p \in Points : PointerMove(id, p)
    \/ \E id \in PointerIds : PointerUp(id)
    \/ \E id \in PointerIds : PointerCancel(id)
    \/ \E g \in GestureArgs : SetGestures(g)

Spec == Init /\ [][Next]_vars

\* Key geometry: one getNoteRect call on a keyboard of any base note and a range of sizes
InitGeom ==
    /\ \E w \in KeyWidths, h \in KeyHeights, b \in 0..127 :
           Constructor(w, h, b, DefaultVelocity)
    /\ \E n \in NoteArgs : input = [op |-> "getNoteRect", note |-> n]

NextGeom == input.op = "getNoteRect" /\ QueryNoteRect(input.note)

SpecGeom == InitGeom /\ [][NextGeom]_vars

\* Hit-testing: one coordsToNote call at a point placed relative to the rectangle of a
\* note within HitSpan semitones of the base note; the horizontal offset runs over the
\* whole white-key width in steps of 1/Scale px, the vertical offset over the edges of
\* the black-key band and of the key
HitSpan == 7
HitKeyWidths == {6, 7, DefaultKeyWidth}
HitKeyHeights == {20, DefaultKeyHeight}
HitBaseNotes == {0, 60, 127}
HitDYs(keyHeight) ==
    LET wh == keyHeight * Scale
        bh == (keyHeight * Scale * 65) \div 100 - 2 * Scale
    IN  {0, 1, bh - 1, bh, bh + 1, wh - 1, wh}

InitHit ==
    /\ \E w \in HitKeyWidths, h \in HitKeyHeights, b \in HitBaseNotes :
           /\ Constructor(w, h, b, DefaultVelocity)
           /\ \E n \in (b - HitSpan)..(b + HitSpan), dx \in 0..(w * Scale), dy \in HitDYs(h) :
                  /\ InNoteRange(n)
                  /\ input = [op |-> "coordsToNote", note |-> n, dx |-> dx, dy |-> dy]

NextHit == input.op = "coordsToNote" /\ HitTest(input.note, input.dx, input.dy)

SpecHit == InitHit /\ [][NextHit]_vars

\* QWERTY input: the layout, base and custom-map setters and key events
QwertyLayouts ==
    { "none", "singleRow", "singleRowExtended", "doubleRow", "doubleRowExtended", "bogus" }
QwertyBaseArgs == { 0 - 1, 0, 59, 60, 61, 100, 127, 128 }
QwertyMapArgs ==
    { Null, NoBindings, ObjectOf(<< <<"KeyQ", 2>>, <<"F1", 0 - 5>>, <<"KeyZ", 200>> >>) }
KeyCodes == { "KeyZ", "KeyQ", "Backquote", "F1", "F2", "constructor" }

NextKeys ==
    \/ \E layout \in QwertyLayouts : setQwertyLayout(layout)
    \/ \E note \in QwertyBaseArgs : setQwertyBase(note)
    \/ \E map \in QwertyMapArgs : setQwertyMap(map)
    \/ \E code \in KeyCodes, repeat \in BOOLEAN, editable \in BOOLEAN :
           onKeyDown(code, repeat, editable)
    \/ \E code \in KeyCodes, editable \in BOOLEAN : onKeyUp(code, editable)

SpecKeys == Init /\ [][NextKeys]_vars

\* The live surface: two pointers that go down at (100,50), or at a far point whose key
\* is beyond note 127, and move to 30 px right (and 10 px down) or 30 px left of
\* (100,50), while the host changes the base note, the key width, the velocity and the
\* gesture switches
LiveIds == {1, 2}
LiveStartPoints == { <<100, 50>>, <<700, 1200>> }
LivePoints == { <<100, 50>>, <<130, 60>>, <<70, 50>> }
LiveBaseNotes == {60, 72}
LiveKeyWidths == {DefaultKeyWidth, 20}
LiveVelocities == {DefaultVelocity, 1}
LiveGestureArgs == { [pitchBend |-> TRUE, modulation |-> TRUE],
                     [pitchBend |-> FALSE, modulation |-> FALSE] }

NextLive ==
    \/ \E id \in LiveIds, p \in LiveStartPoints : PointerDown(id, p)
    \/ \E id \in LiveIds, p \in LivePoints : PointerMove(id, p)
    \/ \E id \in LiveIds : PointerUp(id)
    \/ \E g \in LiveGestureArgs : SetGestures(g)
    \/ \E noteNumber \in LiveBaseNotes : setBaseNote(noteNumber)
    \/ \E width \in LiveKeyWidths : setKeyWidth(width)
    \/ \E velocity \in LiveVelocities : setVelocity(velocity)

SpecLive == Init /\ [][NextLive]_vars

\* Note names passed to setBaseNoteName: C4, c#-1, Bb9, " A0 ", H2, G10, C-2, Cb-1, E
\* and the empty string
NoteNames ==
    { <<"C", "4">>, <<"c", "#", "-", "1">>, <<"B", "b", "9">>, <<" ", "A", "0", " ">>,
      <<"H", "2">>, <<"G", "1", "0">>, <<"C", "-", "2">>, <<"C", "b", "-", "1">>, <<"E">>,
      << >> }

\* The base note: setBaseNote with every argument of NoteArgs and setBaseNoteName, then
\* getNoteRect of the base note and of the next semitone, and coordsToNote at points
\* of the first white slot (horizontally: its edges, its middle and the edges of its
\* two edge zones)
BaseKeyWidths == {6, DefaultKeyWidth}
BaseKeyHeights == {20, DefaultKeyHeight}
SlotDXs ==
    { 0, 1, (whiteKeyWidth * 35) \div 100, whiteKeyWidth \div 2, (whiteKeyWidth * 65) \div 100,
      (whiteKeyWidth * 65) \div 100 + 1, whiteKeyWidth - 1 }
SlotDYs == { 0, blackKeyHeight - 1, blackKeyHeight, whiteKeyHeight - 1 }

InitBase ==
    /\ \E w \in BaseKeyWidths, h \in BaseKeyHeights : Constructor(w, h, 60, DefaultVelocity)
    /\ input = NoCall

NextBase ==
    \/ \E noteNumber \in NoteArgs : setBaseNote(noteNumber)
    \/ \E note \in NoteNames : setBaseNoteName(note)
    \/ \E k \in {0, 1} : QueryNoteRect(startingNote + k)
    \/ \E dx \in SlotDXs, dy \in SlotDYs : HitTest(startingNote, dx, dy)

SpecBase == InitBase /\ [][NextBase]_vars

\* Configuration: construction with in-range options, then the setters of the base
\* note, the velocity and the key size with integers below, at and above their ranges,
\* and a pointer that goes down and up
ConfigKeyWidths == {6, DefaultKeyWidth}
ConfigKeyHeights == {20, DefaultKeyHeight}
ConfigBaseNotes == {0, 60, 127}
ConfigVelocities == {1, DefaultVelocity, 127}
ConfigIntegers == { 0 - 7, 0, 7, 130 }
ConfigPointer == 1
ConfigPoint == <<100, 50>>

InitConfig ==
    /\ \E w \in ConfigKeyWidths, h \in ConfigKeyHeights, b \in ConfigBaseNotes,
          v \in ConfigVelocities : Constructor(w, h, b, v)
    /\ input = NoCall

NextConfig ==
    \/ \E noteNumber \in ConfigIntegers : setBaseNote(noteNumber)
    \/ \E note \in NoteNames : setBaseNoteName(note)
    \/ \E velocity \in ConfigIntegers : setVelocity(velocity)
    \/ \E width \in ConfigIntegers : setKeyWidth(width)
    \/ \E height \in ConfigIntegers : setKeyHeight(height)
    \/ PointerDown(ConfigPointer, ConfigPoint)
    \/ PointerUp(ConfigPointer)

SpecConfig == InitConfig /\ [][NextConfig]_vars

\* The programmatic API and the message codec: one host call on a default keyboard
MaxDataByte == 129
MaxBendInput == 16390
StatusBytes == {128, 144, 147, 160, 176, 224, 248}
\* Every status byte 0..MaxStatusByte is sent with data bytes among DataSamples
MaxStatusByte == 255
DataSamples == {0, 64, 127}
PressNoteArgs == {0 - 1, 0, 60, 127, 128}
PressVelocityArgs == {0 - 1, 0, 1, 100, 127, 128, 200}

InitApi ==
    /\ Constructor(DefaultKeyWidth, DefaultKeyHeight, 60, DefaultVelocity)
    /\ \/ \E s \in StatusBytes, d1 \in 0..MaxDataByte, d2 \in 0..MaxDataByte :
              input = [op |-> "sendMidiMessage", message |-> <<s, d1, d2>>]
       \/ \E s \in 0..MaxStatusByte, d1 \in DataSamples, d2 \in DataSamples :
              input = [op |-> "sendMidiMessage", message |-> <<s, d1, d2>>]
       \/ \E s \in StatusBytes, d1 \in 0..MaxDataByte :
              input = [op |-> "sendMidiMessage", message |-> <<s, d1>>]
       \/ \E v \in 0..MaxBendInput : input = [op |-> "sendPitchBend", value |-> v]
       \/ \E n \in PressNoteArgs, v \in PressVelocityArgs, b \in BOOLEAN :
              input = [op |-> "press", note |-> n, velocity |-> v, sendMidi |-> b]
       \/ \E n \in PressNoteArgs, b \in BOOLEAN :
              input = [op |-> "release", note |-> n, sendMidi |-> b]
       \/ input = [op |-> "resetModulationAndPitchBend"]

NextApi ==
    \/ input.op = "sendMidiMessage" /\ SendMidiMessage(input.message)
    \/ input.op = "sendPitchBend" /\ SendPitchBend(input.value)
    \/ input.op = "press" /\ Press(input.note, input.velocity, input.sendMidi)
    \/ input.op = "release" /\ Release(input.note, input.sendMidi)
    \/ input.op = "resetModulationAndPitchBend" /\ ResetModulationAndPitchBend

SpecApi == InitApi /\ [][NextApi]_vars

-----------------------------------------------------------------------------
(* Properties *)

\* The events of one kind among evs, in order
OfKind(evs, k) == SelectSeq(evs, LAMBDA e : e.kind = k)

\* The controlChange events of evs for one controller with one value
ControlChanges(evs, controller, value) ==
    SelectSeq(evs, LAMBDA e : e.kind = "controlChange" /\ e.controller = controller
                              /\ e.value = value)

\* The pitchBend events of evs with one value
PitchBends(evs, value) == SelectSeq(evs, LAMBDA e : e.kind = "pitchBend" /\ e.value = value)

\* The last operation ran updateTouchPitchBendAndMod: a move or an end of an active gesture
UpdateRan == lastOp.op \in {"move", "end"} /\ lastOp.known

\* The last operation ended the last active gesture
LastGestureEnded == lastOp.op = "end" /\ lastOp.known /\ DOMAIN activeTouches = {}

\* C1 (as claimed): when an end or cancel removes the last active gesture, a pitch bend
\* of 8192, a CC1 = 0 and a CC11 = 127 are each emitted exactly once.
C1_ResetOnLastEnd ==
    LastGestureEnded =>
        /\ Len(PitchBends(fired, 8192)) = 1
        /\ Len(ControlChanges(fired, 1, 0)) = 1
        /\ Len(ControlChanges(fired, 11, 127)) = 1

\* The centre of a rectangle
CentreX(rect) == rect.x + rect.width \div 2
CentreY(rect) == rect.y + rect.height \div 2

\* C2: for every base note, key width >= 6, key height >= 20 and note in [0,127],
\* hit-testing the centre of getNoteRect(note) returns note, for white and black keys.
C2_CentreHitsNote ==
    (lastOp.op = "getNoteRect" /\ InNoteRange(lastOp.note)
       /\ whiteKeyWidth >= 6 * Scale /\ whiteKeyHeight >= 20 * Scale)
    => /\ lastOp.rect # Null
       /\ CoordsToNote(CentreX(lastOp.rect), CentreY(lastOp.rect)) = lastOp.note

\* C2 witness: a black key below the base note (negative relative note) was hit-tested
C2_Witness ==
    /\ lastOp.op = "getNoteRect" /\ InNoteRange(lastOp.note)
    /\ lastOp.note < startingNote
    /\ lastOp.rect.width = blackKeyWidth
    /\ CoordsToNote(CentreX(lastOp.rect), CentreY(lastOp.rect)) = lastOp.note

\* C3: on a gesture update with pitch bend enabled, a pitch-bend message is emitted iff
\* |avgDX| > 10; its 14-bit value v is the integer part of
\* 8192 + sign(avgDX) * min(127, |avgDX| - 10) * 8191 / 127 and lies in [0,16383];
\* a single gesture dragged from (100,50) to (85,50) emits 7869.
C3_PitchBendValue ==
    (UpdateRan /\ gestures.pitchBend) =>
        LET c == Cardinality(DOMAIN activeTouches)
            sum == SumXMovement(activeTouches, DOMAIN activeTouches)
            beyond == c > 0 /\ Abs(sum) > 10 * c
            bends == OfKind(fired, "pitchBend")
            \* 127 * c times the exact value
            exact == 8192 * 127 * c
                     + (IF sum > 0 THEN 1 ELSE 0 - 1) * Min(127 * c, Abs(sum) - 10 * c) * 8191
        IN  /\ Len(bends) = IF beyond THEN 1 ELSE 0
            /\ beyond =>
                  /\ bends[1].value \in 0..16383
                  /\ 127 * c * bends[1].value <= exact
                  /\ exact < 127 * c * (bends[1].value + 1)
            /\ (c = 1 /\ \E i \in DOMAIN activeTouches :
                             /\ activeTouches[i].startPos = <<100, 50>>
                             /\ activeTouches[i].currPos = <<85, 50>>)
                  => (Len(bends) = 1 /\ bends[1].value = 7869)

\* C3 witness: the single gesture dragged from (100,50) to (85,50) has emitted 7869
C3_Witness ==
    /\ lastOp.op = "move" /\ lastOp.known /\ gestures.pitchBend
    /\ DOMAIN activeTouches = {lastOp.id}
    /\ activeTouches[lastOp.id].startPos = <<100, 50>>
    /\ activeTouches[lastOp.id].currPos = <<85, 50>>
    /\ Len(PitchBends(fired, 7869)) = 1

\* The vertical displacement of gesture i
YMovement(i) == activeTouches[i].currPos[2] - activeTouches[i].startPos[2]

\* C4: on every gesture update with modulation enabled and at least one active gesture,
\* exactly one ControlChange is emitted: CC11 with clamp(127 - maxDY, 0, 127) when
\* maxDY >= 0, else CC1 with clamp(|maxDY|, 0, 127), maxDY the maximum of
\* (currentY - startY) over the active gestures; CC1 only when some gesture moved upward.
C4_ModulationChange ==
    (UpdateRan /\ gestures.modulation /\ DOMAIN activeTouches # {}) =>
        LET maxDY == CHOOSE m \in { YMovement(i) : i \in DOMAIN activeTouches } :
                         \A i \in DOMAIN activeTouches : YMovement(i) <= m
            changes == OfKind(fired, "controlChange")
        IN  /\ Len(changes) = 1
            /\ maxDY >= 0 =>
                  /\ changes[1].controller = 11
                  /\ changes[1].value = Max(0, Min(127, 127 - maxDY))
            /\ maxDY < 0 =>
                  /\ changes[1].controller = 1
                  /\ changes[1].value = Max(0, Min(127, 0 - maxDY))
            /\ changes[1].controller = 1 =>
                  \E i \in DOMAIN activeTouches : YMovement(i) < 0

\* C4 witness: with two active gestures, both dragged upward, CC1 was emitted
C4_Witness ==
    /\ UpdateRan /\ gestures.modulation
    /\ Cardinality(DOMAIN activeTouches) = 2
    /\ \A i \in DOMAIN activeTouches : YMovement(i) < 0
    /\ \E e \in { fired[k] : k \in 1..Len(fired) } :
           e.kind = "controlChange" /\ e.controller = 1 /\ e.value > 0

\* C5: every move event of an Active gesture emits exactly one ControlChange (modulation
\* enabled), also when the position did not change; a move event of an id that is not
\* Active emits nothing and leaves the gesture state unchanged.
C5_MoveEmits ==
    [][ lastOp'.op = "move" =>
            IF lastOp'.known
            THEN gestures.modulation => Len(OfKind(fired', "controlChange")) = 1
            ELSE sink' = << >> /\ activeTouches' = activeTouches ]_vars

\* C5 witness: a move that reported the previous position again emitted one ControlChange
C5_Witness ==
    /\ lastOp.op = "move" /\ lastOp.known /\ lastOp.same /\ gestures.modulation
    /\ Len(OfKind(fired, "controlChange")) = 1

\* The data bytes of a message
DataBytes(message) == { message[k] : k \in 2..Len(message) }

\* C6 (as claimed): every message the engine itself constructs (here: by press, release
\* and resetModulationAndPitchBend) has all data bytes in [0,127].
C6_DataBytesInRange ==
    lastOp.op \in {"press", "release", "resetModulationAndPitchBend"} =>
        \A k \in 1..Len(sink) : DataBytes(sink[k]) \subseteq 0..127

\* C7 (as claimed): getNoteRect returns null for every note outside [0,127] and a
\* rectangle for every note inside.
C7_NullOutsideRange ==
    lastOp.op = "getNoteRect" => (lastOp.rect = Null <=> ~InNoteRange(lastOp.note))

\* The last operation was sendMidiMessage of a three-byte message with this status nibble
Sent(nibble) ==
    /\ lastOp.op = "sendMidiMessage"
    /\ Len(lastOp.message) = 3
    /\ lastOp.message[1] \div 16 = nibble

\* C8: a 0x9 message with velocity 0 fires exactly what a NoteOff for the same note
\* fires (noteOff with that note, no noteOn); a 0x9 message with velocity > 0 fires
\* only noteOn.
C8_NoteOnZeroIsNoteOff ==
    /\ Sent(8) => fired = << [kind |-> "noteOff", note |-> lastOp.message[2]] >>
    /\ (Sent(9) /\ lastOp.message[3] = 0)
           => fired = << [kind |-> "noteOff", note |-> lastOp.message[2]] >>
    /\ (Sent(9) /\ lastOp.message[3] > 0)
           => fired = << [kind |-> "noteOn", note |-> lastOp.message[2],
                          velocity |-> lastOp.message[3]] >>

\* C8 witness: [0x93, 60, 0] was sent and fired noteOff(60)
C8_Witness ==
    /\ lastOp.op = "sendMidiMessage" /\ lastOp.message = <<147, 60, 0>>
    /\ fired = << [kind |-> "noteOff", note |-> 60] >>

\* C9: for every v in [0,16383], the bytes (v & 0x7F, (v >> 7) & 0x7F) are in [0,127]
\* and decode (b1 | (b2 << 7)) to v; 8192 encodes as (0, 64).
C9_PitchBendRoundTrip ==
    (lastOp.op = "sendPitchBend" /\ lastOp.value \in 0..16383) =>
        /\ Len(sink) = 1 /\ Len(sink[1]) = 3
        /\ sink[1][2] \in 0..127 /\ sink[1][3] \in 0..127
        /\ fired = << [kind |-> "pitchBend", value |-> lastOp.value] >>
        /\ lastOp.value = 8192 => sink[1] = <<224, 0, 64>>

\* C9 witness: the largest 14-bit value made the round trip
C9_Witness ==
    /\ lastOp.op = "sendPitchBend" /\ lastOp.value = 16383
    /\ sink = << <<224, 127, 127>> >>
    /\ fired = << [kind |-> "pitchBend", value |-> 16383] >>

\* The message the engine builds for a decoded event
Encode(e) ==
    CASE e.kind = "noteOn" -> NoteOnMsg(e.note, e.velocity)
      [] e.kind = "noteOff" -> NoteOffMsg(e.note)
      [] e.kind = "pitchBend" -> PitchBendMsg(e.value)
      [] e.kind = "controlChange" -> ControlChangeMsg(e.controller, e.value)

\* C10: for every message m with a recognised status nibble and data bytes in [0,127],
\* decode(encode(decode(m))) = decode(m).
C10_DecodeEncodeDecode ==
    ((Sent(8) \/ Sent(9) \/ Sent(11) \/ Sent(14))
       /\ DataBytes(lastOp.message) \subseteq 0..127)
    => /\ Len(fired) = 1
       /\ ProcessMidiMessage(Encode(fired[1])) = fired

\* C10 witness: a NoteOn with velocity 0 on channel 3, whose re-encoding [0x80, 60, 0]
\* differs from the message, decoded to the same event
C10_Witness ==
    /\ lastOp.op = "sendMidiMessage" /\ lastOp.message = <<147, 60, 0>>
    /\ Len(fired) = 1
    /\ Encode(fired[1]) = <<128, 60, 0>>
    /\ ProcessMidiMessage(Encode(fired[1])) = fired

\* The last operation was a hit test; the quantities of the point it tested
HitTested == lastOp.op = "coordsToNote"
HitAdjustedX == lastOp.x - canvasMarginX * Scale
HitWhiteIndex == HitAdjustedX \div whiteKeyWidth
HitXWithinKey == HitAdjustedX - HitWhiteIndex * whiteKeyWidth
HitInBand == lastOp.y < blackKeyHeight + 2 * Scale
HitRightZone == HitInBand /\ 100 * HitXWithinKey > 65 * whiteKeyWidth
HitLeftZone == HitInBand /\ 100 * HitXWithinKey < 35 * whiteKeyWidth

\* The chromatic class of a note relative to the base note is black
IsBlackClass(relativeNote) == (relativeNote % 12) \in {1, 3, 6, 8, 10}

\* The relative note of the white key with white index k (k-th white key from the base)
WhiteRelative(k) == 12 * (k \div 7) + PIANO_KEYS_white[(k % 7) + 1]

\* The white slot of a white relative note: the white keys between the base and it
WhiteSlot(relativeNote) ==
    7 * (relativeNote \div 12)
    + Cardinality({ c \in 0..((relativeNote % 12) - 1) : ~IsBlackClass(c) })

\* The tested point lies strictly inside / inside (left and top edge included) the rectangle
StrictlyInside ==
    /\ lastOp.rect.x < lastOp.x /\ lastOp.x < lastOp.rect.x + lastOp.rect.width
    /\ lastOp.rect.y < lastOp.y /\ lastOp.y < lastOp.rect.y + lastOp.rect.height
Inside ==
    /\ lastOp.rect.x <= lastOp.x /\ lastOp.x < lastOp.rect.x + lastOp.rect.width
    /\ lastOp.rect.y <= lastOp.y /\ lastOp.y < lastOp.rect.y + lastOp.rect.height

\* C11: in the black-key band, the right edge zone (xWithinKey > 0.65*W) of a white key
\* whose next class is black gives that black note; else the left edge zone
\* (xWithinKey < 0.35*W) with a black previous class gives that black note; otherwise the
\* white key.  No point is in both zones, the result is within one semitone of the white
\* key, and the right zones of E and B and the left zones of C and F give the white key.
C11_TieBreak ==
    HitTested =>
        LET white == WhiteRelative(HitWhiteIndex)
            hit == lastOp.hit - startingNote
        IN  /\ ~(HitLeftZone /\ HitRightZone)
            /\ hit = IF HitRightZone /\ IsBlackClass(white + 1) THEN white + 1
                     ELSE IF HitLeftZone /\ IsBlackClass(white - 1) THEN white - 1
                     ELSE white
            /\ Abs(hit - white) <= 1
            /\ (HitRightZone /\ (white % 12) \in {4, 11}) => hit = white
            /\ (HitLeftZone /\ (white % 12) \in {0, 5}) => hit = white

\* C11 witness: a point in the right edge zone of the B key below the base note gave B
C11_Witness ==
    /\ HitTested /\ HitRightZone
    /\ HitWhiteIndex < 0
    /\ WhiteRelative(HitWhiteIndex) % 12 = 11
    /\ lastOp.hit - startingNote = WhiteRelative(HitWhiteIndex)

\* C12 (as claimed): for every white note, every point strictly inside its rectangle
\* hit-tests to that white note.
C12_WhiteInterior ==
    (HitTested /\ ~IsBlackClass(lastOp.note - startingNote) /\ StrictlyInside)
        => lastOp.hit = lastOp.note

\* C12 (amended): for every white note, a point strictly inside its rectangle hit-tests
\* to that white note unless it lies in the black-key band and in an edge zone whose
\* neighbouring class on that side is black; there it hit-tests to that black note.
C12_WhiteInteriorOutsideZones ==
    (HitTested /\ ~IsBlackClass(lastOp.note - startingNote) /\ StrictlyInside) =>
        LET rel == lastOp.note - startingNote
        IN  lastOp.hit = IF HitRightZone /\ IsBlackClass(rel + 1) THEN lastOp.note + 1
                         ELSE IF HitLeftZone /\ IsBlackClass(rel - 1) THEN lastOp.note - 1
                         ELSE lastOp.note

\* C12 witness: a point of the band strictly inside a white key, between the two edge
\* zones, gave the white note
C12_Witness ==
    /\ HitTested /\ ~IsBlackClass(lastOp.note - startingNote) /\ StrictlyInside
    /\ HitInBand /\ ~HitRightZone /\ ~HitLeftZone
    /\ lastOp.hit = lastOp.note

\* C13: for every black note, every point inside its rectangle (left and top edges
\* included) hit-tests to that black note, over the lower and over the upper white key.
C13_BlackRect ==
    (HitTested /\ IsBlackClass(lastOp.note - startingNote) /\ Inside)
        => lastOp.hit = lastOp.note

\* C13 witness: a point of a black rectangle over the left part of the upper white
\* neighbour gave the black note
C13_Witness ==
    /\ HitTested /\ IsBlackClass(lastOp.note - startingNote) /\ Inside
    /\ WhiteRelative(HitWhiteIndex) = lastOp.note - startingNote + 1
    /\ lastOp.hit = lastOp.note

\* C14: with baseNote 60, W = 15, H = 80, getNoteRect(60) is at x = marginX with width 15
\* and getNoteRect(61) at x = marginX + 11.25 with width 5.5; a white note in white slot s
\* has x = marginX + s*W and width W, and the next white note starts where it ends.
C14_ForwardGeometry ==
    lastOp.op = "getNoteRect" =>
        LET rel == lastOp.note - startingNote
            rect == lastOp.rect
            scenario == /\ startingNote = 60
                        /\ whiteKeyWidth = 15 * Scale /\ whiteKeyHeight = 80 * Scale
            next == IF IsBlackClass(rel + 1) THEN lastOp.note + 2 ELSE lastOp.note + 1
        IN  /\ (scenario /\ lastOp.note = 60)
                  => (rect.x = canvasMarginX * Scale /\ rect.width = 15 * Scale)
            /\ (scenario /\ lastOp.note = 61)
                  => /\ 4 * rect.x = 4 * canvasMarginX * Scale + 45 * Scale
                     /\ 2 * rect.width = 11 * Scale
            /\ ~IsBlackClass(rel)
                  => /\ rect.x = canvasMarginX * Scale + WhiteSlot(rel) * whiteKeyWidth
                     /\ rect.width = whiteKeyWidth
                     /\ GetNoteRect(next).x = rect.x + rect.width

\* C14 witness: the rectangle of note 61 in the scenario
C14_Witness ==
    /\ lastOp.op = "getNoteRect" /\ lastOp.note = 61 /\ startingNote = 60
    /\ whiteKeyWidth = 15 * Scale /\ whiteKeyHeight = 80 * Scale
    /\ lastOp.rect = DOMRect(530, 80, 220, 2000)

\* The binding table in force
qwertyMap == GetQwertyMap(qwertyLayout, qwertyBase, qwertyCustomMap)

\* baseC = 12 * floor(base / 12), and an offset table anchored at it
BaseC == 12 * (qwertyBase \div 12)
Anchored(offsets) == [id \in DOMAIN offsets |-> Max(0, Min(127, BaseC + offsets[id]))]

IsExtended == qwertyLayout \in {"singleRowExtended", "doubleRowExtended"}
CustomApplies == qwertyCustomMap # Null /\ IsExtended

\* The last operation was a key-down that was neither a repeat nor aimed at an editable
\* element
KeyWentDown == lastOp.op = "keyDown" /\ ~lastOp.repeat /\ ~lastOp.editable

\* C15: with a custom offset table and an extended layout the binding table has exactly
\* the custom identifiers, each at clamp(12*floor(base/12) + offset, 0, 127); with
\* singleRow or doubleRow the custom table is ignored and the preset is used;
\* setQwertyMap(null) restores the preset for the extended layouts.
C15_CustomTable ==
    /\ CustomApplies =>
          /\ qwertyMap = Anchored(qwertyCustomMap)
          /\ (KeyWentDown /\ lastOp.code \in DOMAIN qwertyCustomMap)
                => sink = << NoteOnMsg(Anchored(qwertyCustomMap)[lastOp.code], noteVelocity) >>
          /\ (KeyWentDown /\ lastOp.code \in DOMAIN QWERTY_PRESETS[qwertyLayout]
                          /\ lastOp.code \notin DOMAIN qwertyCustomMap)
                => sink = << >>
    /\ (qwertyCustomMap # Null /\ qwertyLayout \in {"singleRow", "doubleRow"})
          => qwertyMap = Anchored(QWERTY_PRESETS[qwertyLayout])
    /\ (lastOp.op = "setQwertyMap" /\ qwertyCustomMap = Null /\ IsExtended)
          => qwertyMap = Anchored(QWERTY_PRESETS[qwertyLayout])

\* C15 witness: with a custom table binding KeyZ to offset 200 and an extended layout,
\* KeyZ went down and sent NoteOn 127
C15_Witness ==
    /\ KeyWentDown /\ lastOp.code = "KeyZ" /\ CustomApplies
    /\ "KeyZ" \in DOMAIN qwertyCustomMap /\ qwertyCustomMap["KeyZ"] = 200
    /\ sink = << NoteOnMsg(127, noteVelocity) >>

C17_SingleRowSequence ==
    (qwertyLayout \in {"singleRow", "singleRowExtended"} /\ ~CustomApplies) =>
        /\ Cardinality(DOMAIN qwertyMap) = IF IsExtended THEN 18 ELSE 13
        /\ \A i \in 1..Len(SingleRowSeq) :
               /\ SingleRowSeq[i] \in DOMAIN qwertyMap
               /\ qwertyMap[SingleRowSeq[i]] = qwertyBase + (i - 1)

\* C18 (as claimed): with layout 'none' or a layout outside the presets the binding
\* table is empty and a keyDown or keyUp of any identifier sends no message and
\* enqueues no draw.
C18_NoLayoutNoBindings ==
    qwertyLayout \notin DOMAIN QWERTY_PRESETS =>
        /\ qwertyMap = NoBindings
        /\ lastOp.op \in {"keyDown", "keyUp"} => (sink = << >> /\ draws = << >>)

\* The high nibble of a status byte
HighNibble(status) == (status \div 16) % 16

\* C19: a message whose status high nibble is not 0x8, 0x9, 0xB or 0xE fires no typed
\* callback/event and is still handed unchanged to onMidi and to the 'midi' event; the
\* channel nibble of a recognised status byte does not change the classification.
C19_UnrecognisedStatus ==
    lastOp.op = "sendMidiMessage" =>
        LET m == lastOp.message
            nibble == HighNibble(m[1])
        IN  /\ sink = << m >>
            /\ DispatchedEvents(m)[Len(DispatchedEvents(m))] = [kind |-> "midi", detail |-> m]
            /\ nibble \notin {8, 9, 11, 14} =>
                   /\ fired = << >>
                   /\ DispatchedEvents(m) = << [kind |-> "midi", detail |-> m] >>
            /\ nibble \in {8, 9, 11, 14} =>
                   /\ fired = ProcessMidiMessage(<< 16 * nibble >> \o Tail(m))
                   /\ Len(m) = 3 =>
                         /\ Len(fired) = 1
                         /\ fired[1].kind = CASE nibble = 8 -> "noteOff"
                                              [] nibble = 9 -> IF m[3] > 0 THEN "noteOn"
                                                                           ELSE "noteOff"
                                              [] nibble = 11 -> "controlChange"
                                              [] nibble = 14 -> "pitchBend"

\* C19 witness: the polyphonic-aftertouch message [0xA5, 64, 127] fired nothing typed and
\* reached onMidi unchanged
C19_Witness ==
    /\ lastOp.op = "sendMidiMessage" /\ lastOp.message = <<165, 64, 127>>
    /\ sink = << <<165, 64, 127>> >>
    /\ fired = << >>

\* C20: a start makes its id Active (position start = current) and leaves the other
\* gestures alone; a move of an Active id changes only that gesture's current position;
\* an end of an Active id removes exactly that id; a move or end of an id that is not
\* Active changes nothing and sends nothing; a cancel is the same step as an end.  Hence
\* the Active ids are those started and not since ended or cancelled.
C20_GestureLifecycle ==
    [][ LET op == lastOp'.op
            id == lastOp'.id
            active == id \in DOMAIN activeTouches
            othersKept == \A j \in DOMAIN activeTouches \ {id} :
                              j \in DOMAIN activeTouches' /\ activeTouches'[j] = activeTouches[j]
        IN  /\ op = "start" =>
                  /\ DOMAIN activeTouches' = DOMAIN activeTouches \cup {id}
                  /\ activeTouches'[id].startPos = activeTouches'[id].currPos
                  /\ othersKept
            /\ (op = "move" /\ active) =>
                  /\ DOMAIN activeTouches' = DOMAIN activeTouches
                  /\ activeTouches'[id].startPos = activeTouches[id].startPos
                  /\ activeTouches'[id].note = activeTouches[id].note
                  /\ othersKept
            /\ (op = "end" /\ active) =>
                  /\ DOMAIN activeTouches' = DOMAIN activeTouches \ {id}
                  /\ othersKept
            /\ (op \in {"move", "end"} /\ ~active) =>
                  /\ activeTouches' = activeTouches
                  /\ sink' = << >> /\ draws' = << >>
            /\ \A i \in PointerIds : PointerUp(i) <=> PointerCancel(i) ]_vars

\* C20 witness: of two Active gestures one has ended and the other is still Active
C20_Witness ==
    /\ lastOp.op = "end" /\ lastOp.known
    /\ Cardinality(DOMAIN activeTouches) = 1
    /\ lastOp.id \notin DOMAIN activeTouches

\* The last operation was a pointer event (start, move, end or cancel)
PointerOp == lastOp.op \in {"start", "move", "end"}

GesturesDisabled == ~gestures.pitchBend /\ ~gestures.modulation

\* C21 (as claimed): with gestures {pitchBend: false, modulation: false}, every pointer
\* start, move and end emits only NoteOn and NoteOff messages: no pitch-bend and no
\* ControlChange message.
C21_OnlyNotesWhenDisabled ==
    (GesturesDisabled /\ PointerOp) =>
        \A k \in 1..Len(sink) : HighNibble(sink[k][1]) \in {8, 9}

\* The elements of an array
Elements(seq) == { seq[k] : k \in 1..Len(seq) }

\* C22: for all note and baseNote in [0,127], with relativeNote = note - baseNote (which
\* may be negative): chromaticClass is in [0,11] and is ((relativeNote mod 12) + 12) mod 12,
\* octaveIndex = floor(relativeNote/12), relativeNote = 12*octaveIndex + chromaticClass,
\* and WHITE {0,2,4,5,7,9,11} and BLACK {1,3,6,8,10} partition [0,11].  The rectangle of
\* the note is the one these two values select.
C22_ClassAndOctave ==
    (lastOp.op = "getNoteRect" /\ InNoteRange(lastOp.note)) =>
        LET relativeNote == lastOp.note - startingNote
            class == ChromaticNote(relativeNote)
            octave == OctaveNumber(relativeNote)
            white == Elements(PIANO_KEYS_white)
            black == Elements(PIANO_KEYS_black)
        IN  /\ class \in 0..11
            /\ class = mod(relativeNote, 12)
            /\ 12 * octave <= relativeNote /\ relativeNote < 12 * (octave + 1)
            /\ relativeNote = 12 * octave + class
            /\ white = {0, 2, 4, 5, 7, 9, 11} /\ black = {1, 3, 6, 8, 10}
            /\ white \cup black = 0..11 /\ white \cap black = {}
            /\ class \in white =>
                  lastOp.rect = DOMRect(canvasMarginX * Scale
                                          + (IndexOf(PIANO_KEYS_white, class) + 7 * octave)
                                            * whiteKeyWidth,
                                        canvasMarginY * Scale, whiteKeyWidth, whiteKeyHeight)
            /\ class \in black =>
                  /\ lastOp.rect.width = blackKeyWidth
                  /\ lastOp.rect.x >= canvasMarginX * Scale + 7 * octave * whiteKeyWidth
                  /\ lastOp.rect.x < canvasMarginX * Scale + 7 * (octave + 1) * whiteKeyWidth

\* C22 witness: the note one semitone below the base note has class 11 in octave -1
C22_Witness ==
    /\ lastOp.op = "getNoteRect" /\ InNoteRange(lastOp.note)
    /\ lastOp.note - startingNote = 0 - 1
    /\ ChromaticNote(lastOp.note - startingNote) = 11
    /\ OctaveNumber(lastOp.note - startingNote) = 0 - 1

\* The horizontal displacement of gesture i
XMovement(i) == activeTouches[i].currPos[1] - activeTouches[i].startPos[1]

\* The displacements (dx, dy) of the active gestures, as a set
Displacements == { <<XMovement(i), YMovement(i)>> : i \in DOMAIN activeTouches }

\* C23: after every move and every end, the signals are computed over all gestures then
\* active: a pitch bend is emitted iff the mean of (currentX - startX) is beyond 10 in
\* magnitude, and the ControlChange follows the maximum of (currentY - startY).  With two
\* gestures displaced by +30 and -30 no pitch bend is emitted; with +30 and 0 the bend
\* magnitude is 5 (value 8192 + 5*8191/127, integer part 8514).
C23_AggregateOverAll ==
    (UpdateRan /\ gestures.pitchBend /\ gestures.modulation /\ DOMAIN activeTouches # {}) =>
        LET ids == DOMAIN activeTouches
            c == Cardinality(ids)
            total == (IF 1 \in ids THEN XMovement(1) ELSE 0)
                     + (IF 2 \in ids THEN XMovement(2) ELSE 0)
            maxDY == CHOOSE m \in { YMovement(i) : i \in ids } :
                         \A i \in ids : YMovement(i) <= m
            bends == OfKind(fired, "pitchBend")
            changes == OfKind(fired, "controlChange")
            two == c = 2
            xs == { d[1] : d \in Displacements }
        IN  /\ Len(bends) = IF Abs(total) > 10 * c THEN 1 ELSE 0
            /\ (two /\ xs = {30, 0 - 30}) => bends = << >>
            /\ (two /\ xs = {30, 0}) =>
                  /\ Len(bends) = 1
                  /\ 127 * bends[1].value <= 8192 * 127 + 5 * 8191
                  /\ 8192 * 127 + 5 * 8191 < 127 * (bends[1].value + 1)
                  /\ bends[1].value = 8514
            /\ Len(changes) = 1
            /\ changes[1] = IF maxDY >= 0
                            THEN [kind |-> "controlChange", controller |-> 11,
                                  value |-> Max(0, Min(127, 127 - maxDY))]
                            ELSE [kind |-> "controlChange", controller |-> 1,
                                  value |-> Max(0, Min(127, 0 - maxDY))]

\* C23 witness: of two gestures one moved by (+30, +10) and the other rests; the move
\* emitted the bend 8514 and CC11 = 117
C23_Witness ==
    /\ lastOp.op = "move" /\ lastOp.known
    /\ gestures.pitchBend /\ gestures.modulation
    /\ Displacements = { <<30, 10>>, <<0, 0>> }
    /\ sink = << <<224, 66, 66>>, <<176, 11, 117>> >>

\* C24: a start binds the note hit-tested at the start position; no move and no setter
\* changes the bound note of a gesture; the end of a gesture sends NoteOff for its bound
\* note first, then the messages of the controller update over the remaining gestures,
\* whatever the pointer position, the base note and the key width are at that time.
C24_NoteOffCarriesBoundNote ==
    [][ LET op == lastOp'.op
            id == lastOp'.id
        IN  /\ op = "start" =>
                  LET p == activeTouches'[id].startPos
                  IN  activeTouches'[id].note =
                          CoordsToNote((p[1] - canvasLeft) * Scale, (p[2] - canvasTop) * Scale)
            /\ op \notin {"start", "end"} =>
                  /\ DOMAIN activeTouches' = DOMAIN activeTouches
                  /\ \A j \in DOMAIN activeTouches :
                         activeTouches'[j].note = activeTouches[j].note
            /\ (op = "end" /\ id \in DOMAIN activeTouches) =>
                  LET bound == activeTouches[id].note
                  IN  InNoteRange(bound) =>
                         /\ Head(sink') = <<128, bound, 0>>
                         /\ \A k \in 2..Len(sink') : HighNibble(sink'[k][1]) \in {11, 14}
                         /\ Tail(sink') = UpdateTouchPitchBendAndMod(activeTouches', gestures)
                         /\ id \notin DOMAIN activeTouches' ]_vars

\* C24 witness: a gesture that started when the base note was lower has ended: its
\* NoteOff carries a note below the present base note, which no position on the
\* surface hit-tests to; one gesture remains and the controller update followed
C24_Witness ==
    /\ lastOp.op = "end" /\ lastOp.known
    /\ Len(sink) >= 2
    /\ HighNibble(sink[1][1]) = 8 /\ sink[1][2] < startingNote
    /\ HighNibble(sink[2][1]) \in {11, 14}
    /\ DOMAIN activeTouches # {}

\* The number of events of one kind for one note among the events of msgs
NoteEvents(msgs, k, n) ==
    Len(SelectSeq(ProcessAll(msgs), LAMBDA e : e.kind = k /\ e.note = n))

\* The number of gestures of touches bound to note n
BoundTo(touches, n) == Cardinality({ i \in DOMAIN touches : touches[i].note = n })

\* C25: in every step in which no start is delivered for an Active id, for every note n
\* the NoteOn(n) sent minus the NoteOff(n) sent is the change of the number of Active
\* gestures bound to n (so the two stay equal from construction on); a gesture whose
\* hit-tested note is outside [0,127] becomes Active, is counted in the aggregates, and
\* its start and its end send neither NoteOn nor NoteOff.
C25_NoteBalance ==
    [][ (lastOp'.op = "start" => ~lastOp'.known) =>
            LET op == lastOp'.op
                id == lastOp'.id
                notes(msgs) == { e \in Elements(ProcessAll(msgs)) :
                                    e.kind \in {"noteOn", "noteOff"} }
                \* the notes of [0,127] that a message or a gesture of the step names;
                \* for every other note both sides of the balance are zero
                involved == { n \in { e.note : e \in notes(sink') }
                                     \cup { activeTouches[i].note : i \in DOMAIN activeTouches }
                                     \cup { activeTouches'[i].note : i \in DOMAIN activeTouches' } :
                                 InNoteRange(n) }
            IN  /\ \A n \in involved :
                       NoteEvents(sink', "noteOn", n) - NoteEvents(sink', "noteOff", n)
                           = BoundTo(activeTouches', n) - BoundTo(activeTouches, n)
                /\ (op = "start" /\ ~InNoteRange(activeTouches'[id].note)) =>
                       /\ id \in DOMAIN activeTouches'
                       /\ notes(sink') = {}
                /\ (op = "end" /\ lastOp'.known /\ ~InNoteRange(activeTouches[id].note)) =>
                       notes(sink') = {}
                /\ (op = "move" /\ lastOp'.known /\ gestures.pitchBend) =>
                       LET c == Cardinality(DOMAIN activeTouches')
                           total == SumXMovement(activeTouches', DOMAIN activeTouches')
                       IN  (Len(OfKind(ProcessAll(sink'), "pitchBend")) = 1)
                               <=> (Abs(total) > 10 * c) ]_vars

\* C25 witness: a gesture was started beyond note 127 while another gesture is Active:
\* it is Active and only the reset was sent
C25_Witness ==
    /\ lastOp.op = "start" /\ ~lastOp.known
    /\ Cardinality(DOMAIN activeTouches) = 2
    /\ ~InNoteRange(activeTouches[lastOp.id].note)
    /\ \E j \in DOMAIN activeTouches : InNoteRange(activeTouches[j].note)
    /\ sink = ResetMessages

KeyUpSends(code, msgs) == ENABLED (onKeyUp(code, FALSE) /\ sink' = msgs)

\* The last operation was a key-down that sent a NoteOn for a bound identifier
KeySounded ==
    /\ KeyWentDown /\ qwertyLayout # "none"
    /\ lastOp.code \in DOMAIN qwertyMap

QwertySetters == {"setQwertyLayout", "setQwertyBase", "setQwertyMap"}

\* C28: every keyUp of a bound identifier sends NoteOff for the note the identifier maps
\* to under the layout, base note and custom table of that moment.  A keyUp that follows
\* the keyDown of the same identifier directly sends NoteOff for the note of its NoteOn.
\* When a setter follows the keyDown, a keyUp of the identifier delivered after it sends
\* NoteOff for the note that was sounded only if the identifier still maps to that note;
\* if the setter changed its mapping, no NoteOff for the sounded note is sent.  A keyDown
\* flagged as auto-repeat sends nothing.
C28_ReleaseUsesCurrentTable ==
    [][ /\ (lastOp'.op = "keyDown" /\ lastOp'.repeat) => (sink' = << >> /\ draws' = << >>)
        /\ (lastOp'.op = "keyUp" /\ ~lastOp'.editable /\ qwertyLayout # "none"
              /\ lastOp'.code \in DOMAIN qwertyMap)
               => sink' = << <<128, qwertyMap[lastOp'.code], 0>> >>
        /\ (KeySounded /\ lastOp'.op = "keyUp" /\ lastOp'.code = lastOp.code
              /\ ~lastOp'.editable)
               => sink' = << <<128, sink[1][2], 0>> >>
        /\ (KeySounded /\ lastOp'.op \in QwertySetters) =>
               \A code \in KeyCodes, n \in 0..127 :
                   (code = lastOp.code /\ n = sink[1][2]) =>
                       LET stillMapped == /\ qwertyLayout' # "none"
                                          /\ code \in DOMAIN qwertyMap'
                                          /\ qwertyMap'[code] = n
                       IN  KeyUpSends(code, << <<128, n, 0>> >>)' <=> stillMapped ]_vars

\* C28 witness: after setQwertyBase(100) the key-up of KeyZ in the single-row layout sent
\* NoteOff for 96, the note KeyZ maps to under that base
C28_Witness ==
    /\ lastOp.op = "keyUp" /\ lastOp.code = "KeyZ" /\ ~lastOp.editable
    /\ qwertyLayout = "singleRow" /\ qwertyBase = 100
    /\ sink = << <<128, 96, 0>> >>

NamedNote(name) ==
    CASE name = <<"C", "4">> -> 60
      [] name = <<"c", "#", "-", "1">> -> 1
      [] name = <<"B", "b", "9">> -> 130
      [] name = <<" ", "A", "0", " ">> -> 21
      [] name = <<"G", "1", "0">> -> 139
      [] name = <<"C", "-", "2">> -> 0 - 12
      [] name = <<"C", "b", "-", "1">> -> 0 - 1
      [] OTHER -> 12

\* C30: after construction with in-range options and any sequence of setBaseNote,
\* setBaseNoteName, setVelocity, setKeyWidth and setKeyHeight calls, the base note is an
\* integer in [0,127] (the argument, or the named note, clamped), the velocity is in
\* [1,127], so that the NoteOn of a pointer start is classified as noteOn, the white-key
\* width is >= 6 and the height >= 20, and the black-key dimensions are
\* whiteKeyWidth/2 - 2 and whiteKeyHeight*0.65 - 2.
C30_ConfigurationInRange ==
    /\ startingNote \in 0..127
    /\ noteVelocity \in 1..127
    /\ whiteKeyWidth >= 6 * Scale /\ whiteKeyHeight >= 20 * Scale
    /\ 2 * blackKeyWidth = whiteKeyWidth - 4 * Scale
    /\ 100 * (blackKeyHeight + 2 * Scale) = 65 * whiteKeyHeight
    /\ lastOp.op = "setBaseNote" => startingNote = Max(0, Min(127, lastOp.arg))
    /\ lastOp.op = "setBaseNoteName" => startingNote = Max(0, Min(127, NamedNote(lastOp.arg)))
    /\ lastOp.op = "setVelocity" => noteVelocity = Max(1, Min(127, lastOp.arg))
    /\ lastOp.op = "setKeyWidth" => whiteKeyWidth = Scale * Max(6, lastOp.arg)
    /\ lastOp.op = "setKeyHeight" => whiteKeyHeight = Scale * Max(20, lastOp.arg)
    /\ (lastOp.op = "start" /\ InNoteRange(activeTouches[lastOp.id].note)) =>
           /\ OfKind(fired, "noteOff") = << >>
           /\ OfKind(fired, "noteOn") =
                  << [kind |-> "noteOn", note |-> activeTouches[lastOp.id].note,
                      velocity |-> noteVelocity] >>

\* C30 witness: after setVelocity with an argument below 1 and setKeyWidth(130), a
\* pointer start sent a NoteOn with velocity 1 that was classified as noteOn
C30_Witness ==
    /\ lastOp.op = "start" /\ noteVelocity = 1
    /\ whiteKeyWidth = 130 * Scale /\ blackKeyWidth = 63 * Scale
    /\ Len(OfKind(fired, "noteOn")) = 1
    /\ OfKind(fired, "noteOn")[1].velocity = 1

====
